---- MODULE Spec2Model ----
(***************************************************************************)
(* A model of the Dynamodb access layer of src/index.ts: the optimistic    *)
(* write gate (put / update / delete guarded by the __ts attribute), the   *)
(* paginated query engine (fetch) and the batch engine (batchDelete).      *)
(*                                                                         *)
(* The table is one partition of the store; an item is a record            *)
(* [pk, sk, ts, val] where ts is the reserved __ts attribute and val       *)
(* stands for the item's other attributes.  The store (the request         *)
(* executor) evaluates one request at a time, atomically; a call of the    *)
(* library is a sequence of such requests, and the calls of different      *)
(* callers interleave between their requests.                              *)
(***************************************************************************)
EXTENDS Integers, Sequences, FiniteSets, TLC

(***************************************************************************)
(* Bounds of the model.                                                    *)
(***************************************************************************)
MaxClock == 3
MaxCalls == 2
MaxPages == 3
MaxSmallPage == 2
MaxLimit == 2

(***************************************************************************)
(* Data.                                                                   *)
(***************************************************************************)
Procs == {"w1", "w2"}
Keys == {1}
PK == "pk-0"

NoItem == [pk |-> "", sk |-> 0, ts |-> 0, val |-> ""]
Item(k, t, v) == [pk |-> PK, sk |-> k, ts |-> t, val |-> v]
KeyOf(item) == [pk |-> item.pk, sk |-> item.sk]

\* The item stored under sort key k, NoItem when there is none.
Stored(tbl, k) == IF k \in DOMAIN tbl THEN tbl[k] ELSE NoItem

(***************************************************************************)
(* Text.  A string is a sequence of atoms; an atom is one whitespace       *)
(* character, one comma, a run of upper-case letters that the code looks   *)
(* for (a joiner, a section keyword), or a run of other characters.        *)
(***************************************************************************)
RECURSIVE TrimStart(_, _)
TrimStart(s, chars) ==
    IF s # <<>> /\ Head(s) \in chars THEN TrimStart(Tail(s), chars) ELSE s

RECURSIVE TrimEnd(_, _)
TrimEnd(s, chars) ==
    IF s # <<>> /\ s[Len(s)] \in chars THEN TrimEnd(SubSeq(s, 1, Len(s) - 1), chars) ELSE s

\* _.trim(s, chars); _.trim(s) trims whitespace.
Trim(s, chars) == TrimEnd(TrimStart(s, chars), chars)
WHITESPACE == {" "}

(***************************************************************************)
(* Condition expressions: atoms joined by AND / OR.  The letters AND or OR *)
(* at the start of a longer word are an atom of their own ("OR", "DER").   *)
(***************************************************************************)
JOINERS == {"AND", "OR"}
NOT_EXISTS_PARTITION == "(attribute_not_exists(#partition))"
TS_ABSENT_OR_EQ == "(attribute_not_exists(#__ts) OR #__ts = :__ts)"
TS_EXISTS_AND_EQ == "(attribute_exists(#__ts) AND #__ts = :__ts)"
CALLER_ATOM == "attribute_exists(#val)"

\* The caller's conditionExpression option: none, a bare condition, or a
\* condition that opens with an explicit joiner.
CallerConditions ==
    { <<>>, <<CALLER_ATOM>>, <<"OR", " ", CALLER_ATOM>> }

\* _.startsWith(s, joiner) for some joiner (index.ts:137-139): the first
\* letters of s, whatever follows them.
StartsWithJoiner(s) == s # <<>> /\ Head(s) \in JOINERS

\* _.replace(s, /^\s+(AND|OR)\s+/, '') (index.ts:145): whitespace, a joiner
\* and whitespace again at the very start are removed.
RemoveLeadingJoiner(s) ==
    LET rest == TrimStart(s, WHITESPACE)
    IN  IF rest # s /\ Len(rest) >= 2 /\ rest[1] \in JOINERS /\ rest[2] \in WHITESPACE
        THEN TrimStart(Tail(rest), WHITESPACE)
        ELSE s

\* A merge that always inserts AND.
ConcatConditionExpressionAnd(exp1, exp2) ==
    Trim(RemoveLeadingJoiner(Trim(exp1, WHITESPACE) \o <<" ", "AND", " ">>
                                 \o Trim(exp2, WHITESPACE)),
         WHITESPACE)

\* concatConditionExpression (index.ts:129-146): both sides are trimmed;
\* exp2 keeps its own leading joiner, otherwise AND is inserted; a joiner
\* left behind leading whitespace (exp1 empty) is removed.
ConcatConditionExpression(exp1, exp2) ==
    LET trimmedExp1 == Trim(exp1, WHITESPACE)
        trimmedExp2 == Trim(exp2, WHITESPACE)
        startsWithJoiner == StartsWithJoiner(trimmedExp2)
        concatenated == IF startsWithJoiner
                        THEN trimmedExp1 \o <<" ">> \o trimmedExp2
                        ELSE trimmedExp1 \o <<" ", "AND", " ">> \o trimmedExp2
    IN  Trim(RemoveLeadingJoiner(concatenated), WHITESPACE)

\* The store's evaluation of one atom against the stored item (NoItem when
\* the key holds nothing); ts is the value bound to the placeholder :__ts.
EvalAtom(atom, stored, ts) ==
    CASE atom = NOT_EXISTS_PARTITION -> stored = NoItem
      [] atom = TS_ABSENT_OR_EQ -> stored = NoItem \/ stored.ts = ts
      [] atom = TS_EXISTS_AND_EQ -> stored # NoItem /\ stored.ts = ts
      [] atom = CALLER_ATOM -> stored # NoItem
      [] OTHER -> FALSE

\* The words of a text: its atoms other than whitespace.
Words(s) == SelectSeq(s, LAMBDA a : a \notin WHITESPACE)

\* The store's evaluation of a condition: AND binds tighter than OR; a
\* request without ConditionExpression is unconditional.
RECURSIVE EvalWords(_, _, _)
EvalWords(cond, stored, ts) ==
    IF cond = <<>> THEN TRUE
    ELSE LET ors == { i \in 1..Len(cond) : cond[i] = "OR" }
             cut == IF ors = {} THEN Len(cond) + 1
                    ELSE CHOOSE i \in ors : \A j \in ors : i <= j
             clause == SubSeq(cond, 1, cut - 1)
             clauseHolds == \A j \in 1..Len(clause) :
                               clause[j] = "AND" \/ EvalAtom(clause[j], stored, ts)
         IN  clauseHolds
             \/ (cut <= Len(cond)
                 /\ EvalWords(SubSeq(cond, cut + 1, Len(cond)), stored, ts))

EvalCondition(cond, stored, ts) == EvalWords(Words(cond), stored, ts)

(***************************************************************************)
(* Update expressions.  An atom is a section keyword, a run of upper-case  *)
(* letters, one space, one comma, or a run of other characters (which may  *)
(* hold inner spaces but no upper-case letter and no comma).               *)
(***************************************************************************)
SECTIONS == <<"SET", "ADD", "DELETE", "REMOVE">>
Keywords == { SECTIONS[i] : i \in 1..Len(SECTIONS) }
UpperAtoms == {"I", "OFF", "P"}
TRIM == {",", " "}

\* The atom matches [A-Z].
IsUpper(a) == a \in Keywords \cup UpperAtoms

\* s.split(','): at least one piece, empty pieces kept.
RECURSIVE Split(_)
Split(s) ==
    LET commas == { i \in 1..Len(s) : s[i] = "," }
    IN  IF commas = {} THEN <<s>>
        ELSE LET c == CHOOSE i \in commas : \A j \in commas : i <= j
             IN  <<SubSeq(s, 1, c - 1)>> \o Split(SubSeq(s, c + 1, Len(s)))

\* _.uniq: the first occurrence of every element, in order.
RECURSIVE Uniq(_)
Uniq(s) ==
    IF s = <<>> THEN <<>>
    ELSE LET init == Uniq(SubSeq(s, 1, Len(s) - 1))
             x == s[Len(s)]
         IN  IF \E i \in 1..Len(init) : init[i] = x THEN init ELSE Append(init, x)

\* _.join(pieces, sep).
RECURSIVE Join(_, _)
Join(pieces, sep) ==
    IF pieces = <<>> THEN <<>>
    ELSE IF Len(pieces) = 1 THEN pieces[1]
    ELSE pieces[1] \o sep \o Join(Tail(pieces), sep)

\* extractSection (index.ts:151-156): the first match of
\* sec\s+([^A-Z]+)(?=[A-Z]|$), trimmed of spaces and commas: the keyword,
\* wherever it stands, one space at least, and everything up to the next
\* upper-case letter.
ExtractSection(exp, sec) ==
    LET starts == { i \in 1..(Len(exp) - 2) :
                        exp[i] = sec /\ exp[i + 1] = " " /\ ~IsUpper(exp[i + 2]) }
    IN  IF starts = {} THEN <<>>
        ELSE LET i == CHOOSE x \in starts : \A y \in starts : x <= y
                 ups == { j \in (i + 1)..Len(exp) : IsUpper(exp[j]) }
                 end == IF ups = {} THEN Len(exp)
                        ELSE (CHOOSE x \in ups : \A y \in ups : x <= y) - 1
             IN  Trim(SubSeq(exp, i, end), TRIM)

\* part.replace(sec, '').split(','), [] for an empty part (index.ts:169-170).
SectionPieces(part) == IF part = <<>> THEN <<>> ELSE Split(Tail(part))

\* parts[sec] (index.ts:165-178): the trimmed pieces of both inputs, each
\* once; none when neither input has the section.
SectionParts(exp1, exp2, sec) ==
    LET pieces == SectionPieces(ExtractSection(exp1, sec))
                  \o SectionPieces(ExtractSection(exp2, sec))
    IN  Uniq([i \in 1..Len(pieces) |-> Trim(pieces[i], TRIM)])

\* A merge that returns nothing when no section was found.
ConcatUpdateExpressionNoFallback(e1, e2) ==
    LET exp1 == Trim(e1, TRIM)
        exp2 == Trim(e2, TRIM)
        rendered == [i \in 1..Len(SECTIONS) |->
                        LET parts == SectionParts(exp1, exp2, SECTIONS[i])
                        IN  IF Len(parts) > 0
                            THEN <<SECTIONS[i], " ">> \o Join(parts, <<",", " ">>)
                            ELSE <<>>]
    IN  Trim(Join(SelectSeq(rendered, LAMBDA r : r # <<>>), <<" ">>), {" "})

\* concatUpdateExpression (index.ts:148-198).
ConcatUpdateExpression(e1, e2) ==
    LET exp1 == Trim(e1, TRIM)
        exp2 == Trim(e2, TRIM)
        rendered == [i \in 1..Len(SECTIONS) |->
                        LET parts == SectionParts(exp1, exp2, SECTIONS[i])
                        IN  IF Len(parts) > 0
                            THEN <<SECTIONS[i], " ">> \o Join(parts, <<",", " ">>)
                            ELSE <<>>]
        result == Trim(Join(SelectSeq(rendered, LAMBDA r : r # <<>>), <<" ">>), {" "})
        combinedExp == Trim(exp1 \o <<",", " ">> \o exp2, TRIM)
    IN  IF result # <<>> THEN result
        ELSE IF combinedExp # <<>> THEN <<"SET", " ">> \o combinedExp
        ELSE <<>>

(***************************************************************************)
(* The store's range query.                                                *)
(***************************************************************************)
Infinity == 1000000
NoKey == [pk |-> "", sk |-> 0]
Min(a, b) == IF a <= b THEN a ELSE b

\* The numbers of S in increasing order.
SortedSeq(S) ==
    [i \in 1..Cardinality(S) |-> CHOOSE x \in S : Cardinality({y \in S : y < x}) = i - 1]

\* A key condition: equality on the partition alone (bySort = FALSE), or on
\* the partition and the sort attribute.
PartitionOnly == [bySort |-> FALSE, sk |-> 0]
PartitionAndSort(k) == [bySort |-> TRUE, sk |-> k]

\* One page of a query: the items that match the key condition, in sort
\* order, after the exclusive start key, cut at the request's Limit and at
\* the store's own response capacity (cap).  The store reports
\* LastEvaluatedKey when it stopped before the end; when the cut falls
\* exactly on the last matching item it may or may not report one
\* (lekAtEnd).
QueryPage(tbl, kc, startKey, limit, cap, lekAtEnd) ==
    LET matched == { k \in DOMAIN tbl :
                        /\ kc.bySort => k = kc.sk
                        /\ startKey # NoKey => k > startKey.sk }
        keys == SortedSeq(matched)
        max == Min(limit, cap)
        n == Min(Len(keys), max)
        page == [i \in 1..n |-> tbl[keys[i]]]
        stopped == Len(keys) > n \/ (lekAtEnd /\ n = max)
    IN  [Items |-> page,
         LastEvaluatedKey |-> IF stopped /\ n > 0 THEN KeyOf(page[n]) ELSE NoKey]

(***************************************************************************)
(* State.                                                                  *)
(***************************************************************************)
VARIABLES
    table,      \* the stored items: sort key -> item
    clock,      \* the library clock (_.now()), which never goes backwards
    pageMax,    \* the store's response capacity, in items
    call,       \* per caller: the call in progress
    last,       \* the call the latest step completed, NoLast when it completed none
    ncalls,     \* calls started so far
    fx,         \* the fetch (or batchDelete) call in progress
    tasks,      \* batchDelete: per page, the key groups del has still to delete
                \* (the first one is in flight) and the rank of the first
    log         \* requests, responses, callbacks and returns, in order

vars == <<table, clock, pageMax, call, last, ncalls, fx, tasks, log>>
pageVars == <<fx, tasks, log>>

NoReq == [cmd |-> "none", key |-> NoKey, item |-> NoItem, cond |-> <<>>, ts |-> 0,
          expr |-> <<>>]

Idle == [pc |-> "idle", op |-> "none", item |-> NoItem, val |-> "", mode |-> "none",
         overwrite |-> FALSE,
         upsert |-> FALSE, cc |-> <<>>, current |-> NoItem, req |-> NoReq,
         now |-> 0, stale |-> FALSE, staleLater |-> FALSE, exp |-> <<>>,
         prev |-> NoReq]

NoLast == [op |-> "none", mode |-> "none", overwrite |-> FALSE, cc |-> <<>>,
           ok |-> FALSE, error |-> "", before |-> NoItem, after |-> NoItem,
           current |-> NoItem, now |-> 0, stale |-> FALSE, staleLater |-> FALSE,
           item |-> NoItem, val |-> "", upsert |-> FALSE, req |-> NoReq,
           returned |-> NoItem, prev |-> NoReq]

(***************************************************************************)
(* The key-schema resolver (index.ts:505-525).  An item is a function from *)
(* the attribute names it holds to their values; "" and "null" are falsy   *)
(* values.                                                                 *)
(***************************************************************************)
SCHEMA == [partition |-> "pk", sort |-> "sk"]
Index(name, partition, sort) == [name |-> name, partition |-> partition, sort |-> sort]
LS_INDEX == Index("ls-index", "pk", "lsiSk")
GS_INDEX == Index("gs-index", "gsiPk", "gsiSk")
GS_SK_INDEX == Index("gs-sk-index", "gsiPk", "sk")

\* An attribute counts when its value is truthy.
HasTruthy(item, name) == name \in DOMAIN item /\ item[name] \notin {"", "null"}

\* _.has(item, name): the item holds the attribute, whatever its value.
Has(item, name) == name \in DOMAIN item

\* The first index of the list whose two attributes the item holds.
RECURSIVE FirstIndex(_, _)
FirstIndex(item, indexes) ==
    IF indexes = <<>> THEN [index |-> "", schema |-> [partition |-> "", sort |-> ""]]
    ELSE IF Has(item, Head(indexes).partition) /\ Has(item, Head(indexes).sort)
         THEN [index |-> Head(indexes).name,
               schema |-> [partition |-> Head(indexes).partition,
                           sort |-> Head(indexes).sort]]
         ELSE FirstIndex(item, Tail(indexes))

\* optimisticResolveSchema (index.ts:505-525).
OptimisticResolveSchema(item, schema, indexes) ==
    IF Has(item, schema.partition) /\ Has(item, schema.sort)
    THEN [index |-> "sort", schema |-> schema]
    ELSE FirstIndex(item, indexes)

(***************************************************************************)
(* fetch's request (index.ts:333-412) and get (index.ts:453).              *)
(***************************************************************************)
FETCH_OPTS == [all |-> FALSE, limit |-> Infinity, startKey |-> NoKey, onChunk |-> "noop",
               index |-> ""]

\* The indexes of the instance.
INDEXES == <<LS_INDEX, GS_INDEX>>

\* The attributes an item record of the table holds: pk unless "", sk
\* unless 0.
ItemAttrs(item) ==
    [n \in {x \in {"pk"} : item.pk # ""} \cup {x \in {"sk"} : item.sk # 0} |->
        IF n = "pk" THEN "v" ELSE "v"]

Resolve(item) == OptimisticResolveSchema(ItemAttrs(item), SCHEMA, INDEXES)

\* A key condition that always names the sort attribute.
KeyConditionSort(item, index) == PartitionAndSort(item.sk)

\* The key condition (index.ts:354-390): on the partition and the sort
\* attribute when the resolver found a pair, on the partition alone when it
\* found none.
KeyCondition(item, index) ==
    IF index # "" THEN PartitionAndSort(item.sk) ELSE PartitionOnly

\* An index name that prefers the resolved index to the caller's.
IndexNameResolvedFirst(optsIndex, index) ==
    IF index # "" /\ index # "sort" THEN index ELSE optsIndex

\* The index the query names (index.ts:350-357): the caller's, else the
\* resolved one unless it is the primary pair.
IndexName(optsIndex, index) ==
    IF optsIndex # "" THEN optsIndex
    ELSE IF index # "" /\ index # "sort" THEN index
    ELSE ""

\* A query that drops the start key.
QueryParamsNoStartKey(item, opts) ==
    [kc |-> KeyCondition(item, Resolve(item).index),
     partition |-> item.pk,
     IndexName |-> IndexName(opts.index, Resolve(item).index),
     Limit |-> IF opts.limit # 0 /\ opts.limit # Infinity THEN opts.limit ELSE Infinity,
     ExclusiveStartKey |-> NoKey]

\* The query fetch builds: the per-page cap when one is set, the start key
\* when one is given, the key condition and the index name from the
\* resolver; :partition is bound to the item's partition value ("" when the
\* item holds none).
QueryParams(item, opts) ==
    [kc |-> KeyCondition(item, Resolve(item).index),
     partition |-> item.pk,
     IndexName |-> IndexName(opts.index, Resolve(item).index),
     Limit |-> IF opts.limit # 0 /\ opts.limit # Infinity THEN opts.limit ELSE Infinity,
     ExclusiveStartKey |-> opts.startKey]

SendQuery(tbl, params, cap, lekAtEnd) ==
    QueryPage(tbl, params.kc, params.ExclusiveStartKey, params.Limit, cap, lekAtEnd)

\* A get that finds nothing.
GetNull(tbl, item, cap, lekAtEnd) == NoItem

\* get: fetch with limit 1, its first item or null.
Get(tbl, item, cap, lekAtEnd) ==
    LET res == SendQuery(tbl, QueryParams(item, [FETCH_OPTS EXCEPT !.limit = 1]),
                         cap, lekAtEnd)
    IN  IF Len(res.Items) > 0 THEN res.Items[1] ELSE NoItem

(***************************************************************************)
(* The write requests of put, update and delete.                           *)
(***************************************************************************)
\* A put that never guards.
PutGuardNone(overwrite) == <<>>

\* put's built-in guard (index.ts:469-475).
PutGuard(overwrite) ==
    IF ~overwrite THEN <<NOT_EXISTS_PARTITION>> ELSE <<>>

\* put (index.ts:464-500): the guard merged with the caller's condition, the
\* item stamped with the clock.  opts.ts is the caller's value for :__ts.
PutRequest(item, opts, now) ==
    LET guard == PutGuard(opts.overwrite)
        cond == IF opts.cc # <<>>
                THEN ConcatConditionExpression(guard, opts.cc)
                ELSE guard
    IN  [cmd |-> "Put", key |-> KeyOf(item), item |-> [item EXCEPT !.ts = now],
         cond |-> cond, ts |-> opts.ts, expr |-> <<>>]

\* update's guard merged with the caller's condition (index.ts:536-540).
UpdateCondition(cc) ==
    IF cc # <<>>
    THEN ConcatConditionExpression(<<TS_ABSENT_OR_EQ>>, cc)
    ELSE <<TS_ABSENT_OR_EQ>>

\* The value bound to :__ts: current?.__ts || _.now() (index.ts:551, 582).
GuardTs(current, now) == IF current.ts # 0 THEN current.ts ELSE now

\* The items update expressions are made of here.
VAL_ITEM == <<"#val = :val">>
TS_ITEM == <<"#__ts = :__ts">>
FOO_ITEM == <<"#foo = if_not_exists(#foo, :foo)">>
USERID_ITEM == <<"#user", "I", "d = :u">>
BAR_ITEM == <<"#bar :one">>
TMP_ITEM == <<"#tmp">>
PRICE_ITEM == <<"P", "rice = :p">>
TAGS_ITEM == <<"#tags :t">>

\* The caller's expression as the caller thinks of it: sections of items,
\* each under a keyword, or one bare comma-list (sec = "").
Section(sec, items) == [sec |-> sec, items |-> items]
DEFAULT_EXPRESSION == <<Section("SET", <<VAL_ITEM>>)>>

\* The text of such an expression.
RenderSection(section) ==
    (IF section.sec = "" THEN <<>> ELSE <<section.sec, " ">>)
    \o Join(section.items, <<",", " ">>)
Render(sections) == Join([i \in 1..Len(sections) |-> RenderSection(sections[i])], <<" ">>)

\* The store's reading of an update expression: the items of a section are
\* what stands between its keyword (a word of its own) and the next one,
\* separated by commas.
SectionStarts(expr) ==
    { i \in 1..Len(expr) :
        /\ expr[i] \in Keywords
        /\ i = 1 \/ expr[i - 1] = " "
        /\ i = Len(expr) \/ expr[i + 1] = " " }
ItemsAt(expr, i) ==
    LET later == { j \in SectionStarts(expr) : j > i }
        end == IF later = {} THEN Len(expr)
               ELSE (CHOOSE x \in later : \A y \in later : x <= y) - 1
        pieces == Split(SubSeq(expr, i + 1, end))
    IN  { Trim(pieces[j], {" "}) : j \in 1..Len(pieces) }
RefItems(expr, sec) ==
    UNION { ItemsAt(expr, i) : i \in { j \in SectionStarts(expr) : expr[j] = sec } }

\* The items the store accepts in a section.
KnownItems(sec) ==
    CASE sec = "SET" -> {VAL_ITEM, TS_ITEM, FOO_ITEM, USERID_ITEM}
      [] sec = "ADD" -> {BAR_ITEM}
      [] sec = "REMOVE" -> {TMP_ITEM}
      [] OTHER -> {}

\* The store rejects an UpdateCommand whose expression it cannot read.
ValidExpression(expr) ==
    /\ 1 \in SectionStarts(expr)
    /\ \A sec \in Keywords : RefItems(expr, sec) \subseteq KnownItems(sec)

\* Expression mode (index.ts:542-567): one UpdateCommand on the caller's key
\* with the caller's expression merged with SET #__ts = :__ts; :val is bound
\* to the caller's value and :__ts to the guard's timestamp.
UpdateExprRequest(item, v, cc, current, now, exp) ==
    [cmd |-> "Update", key |-> KeyOf(item),
     item |-> [item EXCEPT !.val = v, !.ts = GuardTs(current, now)],
     cond |-> UpdateCondition(cc), ts |-> GuardTs(current, now),
     expr |-> ConcatUpdateExpression(exp, <<"SET", " ">> \o TS_ITEM)]

\* The caller's transform: it returns its input with the caller's value put
\* in front of what val held.
UpdateFn(input, v) == [input EXCEPT !.val = IF @ = "" THEN v ELSE v \o "<" \o @]

\* What the caller passes to update: an expression, a transform, both or
\* neither; the transform of "updateFnNil" returns null.
Modes == {"expression", "updateFn", "both", "neither", "updateFnNil"}

\* opts.expression is set (index.ts:542).
HasExpression(mode) == mode \in {"expression", "both"}

\* opts.updateFn after the defaults: the caller's transform, or _.identity
\* of UPDATE_OPTS (index.ts:109) when the caller passed none.  NoItem stands
\* for a null result.
Transform(mode, input, v) ==
    CASE mode \in {"updateFn", "both"} -> UpdateFn(input, v)
      [] mode = "updateFnNil" -> NoItem
      [] OTHER -> input

\* A transform always handed the caller's item.
TransformInputItem(item, current) == item

\* What the transform is applied to (index.ts:573).
TransformInput(item, current) == IF current = NoItem THEN item ELSE current

\* Transform mode (index.ts:572-585): the transform's output, or the
\* caller's item when the output is null, goes through put with overwrite
\* and the guard as put's condition.
UpdateFnRequest(mode, item, v, cc, current, now) ==
    LET updateFnRes == Transform(mode, TransformInput(item, current), v)
    IN  PutRequest(IF updateFnRes # NoItem THEN updateFnRes ELSE item,
                   [overwrite |-> TRUE, cc |-> UpdateCondition(cc),
                    ts |-> GuardTs(current, now)],
                   now)

\* An update that never throws.
ItemNotFoundNever(current, upsert) == FALSE

\* update throws 'Item not found' (index.ts:532-534).
ItemNotFound(current, upsert) == current = NoItem /\ ~upsert

\* delete (index.ts:300-318): a conditional delete of the key that was read.
DeleteRequest(cc, current) ==
    [cmd |-> "Delete", key |-> KeyOf(current), item |-> NoItem,
     cond |-> IF cc # <<>>
              THEN ConcatConditionExpression(<<TS_EXISTS_AND_EQ>>, cc)
              ELSE <<TS_EXISTS_AND_EQ>>,
     ts |-> current.ts, expr |-> <<>>]

(***************************************************************************)
(* The store's evaluation of a write request.                              *)
(***************************************************************************)
ConditionHolds(tbl, req) == EvalCondition(req.cond, Stored(tbl, req.key.sk), req.ts)

\* The store validates a request before it evaluates its condition: the key
\* holds both primary key attributes, and the update expression reads.
ValidRequest(req) ==
    /\ req.key.pk # "" /\ req.key.sk # 0
    /\ req.cmd = "Update" => ValidExpression(req.expr)

Remove(tbl, k) == [x \in DOMAIN tbl \ {k} |-> tbl[x]]

\* PutCommand replaces the item; UpdateCommand assigns the attributes its SET
\* section names to the stored item, creating it when absent; DeleteCommand
\* removes it.
ApplyWrite(tbl, req) ==
    LET k == req.key.sk
        stored == Stored(tbl, k)
    IN  CASE req.cmd = "Put" -> (k :> req.item) @@ tbl
          [] req.cmd = "Update" ->
                (k :> [pk |-> req.key.pk, sk |-> k,
                       ts |-> IF TS_ITEM \in RefItems(req.expr, "SET")
                              THEN req.item.ts ELSE stored.ts,
                       val |-> IF VAL_ITEM \in RefItems(req.expr, "SET")
                               THEN req.item.val ELSE stored.val]) @@ tbl
          [] req.cmd = "Delete" -> Remove(tbl, k)
          [] OTHER -> tbl

\* A delete that returns what the store holds afterwards.
ReturnedAfter(req, before, after) ==
    CASE req.cmd = "Put" -> req.item
      [] OTHER -> after

\* What the call returns after its write: put returns the item it sent
\* (index.ts:502), update the ALL_NEW attributes (index.ts:563, 569),
\* delete the ALL_OLD attributes (index.ts:315, 320).
Returned(req, before, after) ==
    CASE req.cmd = "Put" -> req.item
      [] req.cmd = "Update" -> after
      [] req.cmd = "Delete" -> before
      [] OTHER -> NoItem

NoFetch == [pc |-> "idle", op |-> "none", params |-> QueryParams(NoItem, FETCH_OPTS),
            all |-> FALSE, onChunk |-> "noop", npages |-> 0, items |-> <<>>,
            lek |-> NoKey, follow |-> FALSE, error |-> ""]

(***************************************************************************)
(* The calls of put, update and delete, interleaved.                       *)
(***************************************************************************)
\* A __ts the caller's own item may carry into put.
CallerTs == MaxClock + 1

\* put(item, opts): the request is built and sent at once.
PutCall(p, k, overwrite, cc, ts) ==
    /\ call[p].pc = "idle"
    /\ ncalls < MaxCalls
    /\ LET item == Item(k, ts, p)
       IN  call' = [call EXCEPT ![p] =
                [Idle EXCEPT !.pc = "writing", !.op = "put",
                             !.val = p, !.overwrite = overwrite, !.cc = cc,
                             !.now = clock,
                             !.req = PutRequest(item,
                                        [overwrite |-> overwrite, cc |-> cc, ts |-> 0],
                                        clock)]]
    /\ ncalls' = ncalls + 1
    /\ last' = NoLast
    /\ UNCHANGED <<table, clock, pageMax, pageVars>>

\* update(item, opts): the read request goes out first.
UpdateCall(p, k, mode, upsert, cc) ==
    /\ call[p].pc = "idle"
    /\ ncalls < MaxCalls
    /\ call' = [call EXCEPT ![p] =
            [Idle EXCEPT !.pc = "reading", !.op = "update", !.item = Item(k, 0, ""),
                         !.val = p, !.mode = mode, !.upsert = upsert, !.cc = cc,
                         !.exp = IF HasExpression(mode) THEN DEFAULT_EXPRESSION
                                 ELSE <<>>]]
    /\ ncalls' = ncalls + 1
    /\ last' = NoLast
    /\ UNCHANGED <<table, clock, pageMax, pageVars>>

\* update(item, { expression, upsert }) with an expression of the caller's.
UpdateExprCall(p, k, upsert, exp) ==
    /\ call[p].pc = "idle"
    /\ ncalls < MaxCalls
    /\ call' = [call EXCEPT ![p] =
            [Idle EXCEPT !.pc = "reading", !.op = "update", !.item = Item(k, 0, ""),
                         !.val = p, !.mode = "expression", !.upsert = upsert,
                         !.exp = exp]]
    /\ ncalls' = ncalls + 1
    /\ last' = NoLast
    /\ UNCHANGED <<table, clock, pageMax, pageVars>>

\* delete(item, opts): the read request goes out first.
DeleteCall(p, k, cc) ==
    /\ call[p].pc = "idle"
    /\ ncalls < MaxCalls
    /\ call' = [call EXCEPT ![p] =
            [Idle EXCEPT !.pc = "reading", !.op = "delete", !.item = Item(k, 0, ""),
                         !.cc = cc]]
    /\ ncalls' = ncalls + 1
    /\ last' = NoLast
    /\ UNCHANGED <<table, clock, pageMax, pageVars>>

\* What a call that ends without a write leaves in last.
Ended(c, err) ==
    [NoLast EXCEPT !.op = c.op, !.mode = c.mode, !.cc = c.cc, !.error = err,
                   !.before = c.current, !.after = c.current,
                   !.item = c.item, !.val = c.val, !.upsert = c.upsert]

\* get(item): the read request goes out.  prev remembers the put request
\* the caller completed in the step before, if any.
GetCall(p, k) ==
    /\ call[p].pc = "idle"
    /\ ncalls < MaxCalls
    /\ call' = [call EXCEPT ![p] =
            [Idle EXCEPT !.pc = "reading", !.op = "get", !.item = Item(k, 0, ""),
                         !.prev = IF last.op = "put" /\ last.ok THEN last.req
                                  ELSE NoReq]]
    /\ ncalls' = ncalls + 1
    /\ last' = NoLast
    /\ UNCHANGED <<table, clock, pageMax, pageVars>>

\* What get leaves in last: the item read, or null (index.ts:461).
GetEnded(c, current) ==
    [Ended(c, "") EXCEPT !.ok = TRUE, !.returned = current, !.prev = c.prev]

\* The store answers the read of get, update or delete; get returns, and
\* update and delete go on to their write request, or end: update without
\* upsert throws on a missing item (index.ts:532), delete returns null
\* (index.ts:296).
ReadResponse(p, lekAtEnd) ==
    /\ call[p].pc = "reading"
    /\ LET c == call[p]
           current == Get(table, c.item, pageMax, lekAtEnd)
           req == IF c.op = "delete" THEN DeleteRequest(c.cc, current)
                  ELSE IF HasExpression(c.mode)
                       THEN UpdateExprRequest(c.item, c.val, c.cc, current, clock,
                                              Render(c.exp))
                       ELSE UpdateFnRequest(c.mode, c.item, c.val, c.cc, current, clock)
           ends == IF c.op = "get" THEN TRUE
                   ELSE IF c.op = "delete" THEN current = NoItem
                   ELSE ItemNotFound(current, c.upsert)
       IN  IF ends
           THEN /\ call' = [call EXCEPT ![p] = Idle]
                /\ last' = IF c.op = "get" THEN GetEnded(c, current)
                            ELSE Ended(c, IF c.op = "delete" THEN "null"
                                          ELSE "Item not found")
           ELSE /\ call' = [call EXCEPT ![p] =
                        [c EXCEPT !.pc = "writing", !.current = current,
                                  !.now = clock, !.req = req]]
                /\ last' = NoLast
    /\ UNCHANGED <<table, clock, pageMax, ncalls, pageVars>>

\* The store evaluates the write request of p: on a false condition it
\* rejects with ConditionalCheckFailedException and stores nothing.  A put
\* or update that succeeds makes stale every other call that has read the
\* same key and whose write is still to be evaluated.
WriteResponse(p) ==
    /\ call[p].pc = "writing"
    /\ LET c == call[p]
           req == c.req
           k == req.key.sk
           ok == ValidRequest(req) /\ ConditionHolds(table, req)
           wrote == ok /\ req.cmd \in {"Put", "Update"}
       IN  /\ table' = IF ok THEN ApplyWrite(table, req) ELSE table
           /\ last' = [op |-> c.op, mode |-> c.mode, overwrite |-> c.overwrite,
                       cc |-> c.cc, ok |-> ok,
                       error |-> IF ok THEN ""
                                 ELSE IF ~ValidRequest(req) THEN "ValidationException"
                                 ELSE "ConditionalCheckFailedException",
                       before |-> Stored(table, k), after |-> Stored(table', k),
                       current |-> c.current, now |-> c.now,
                       stale |-> c.stale, staleLater |-> c.staleLater,
                       item |-> c.item, val |-> c.val, upsert |-> c.upsert,
                       req |-> req,
                       returned |-> IF ok
                                    THEN Returned(req, Stored(table, k), Stored(table', k))
                                    ELSE NoItem,
                       prev |-> NoReq]
           /\ call' = [q \in Procs |->
                        IF q = p THEN Idle
                        ELSE IF wrote /\ call[q].pc = "writing"
                                /\ call[q].op \in {"update", "delete"}
                                /\ call[q].req.key.sk = k
                             THEN [call[q] EXCEPT
                                     !.stale = TRUE,
                                     !.staleLater = @ \/ c.now > call[q].req.ts]
                             ELSE call[q]]
    /\ UNCHANGED <<clock, pageMax, ncalls, pageVars>>

\* Time passes.
Tick ==
    /\ clock < MaxClock
    /\ clock' = clock + 1
    /\ last' = NoLast
    /\ UNCHANGED <<table, pageMax, call, ncalls, pageVars>>

\* The table holds nothing, or one item an earlier put stored.
Init ==
    /\ clock = 1
    /\ table \in {<<>>} \cup { (k :> Item(k, 1, "w0")) : k \in Keys }
    /\ pageMax = 1
    /\ call = [p \in Procs |-> Idle]
    /\ last = NoLast
    /\ ncalls = 0
    /\ fx = NoFetch
    /\ tasks = <<>>
    /\ log = <<>>

Next ==
    \/ \E p \in Procs, k \in Keys, overwrite \in BOOLEAN, cc \in CallerConditions,
          ts \in {0, CallerTs} :
            PutCall(p, k, overwrite, cc, ts)
    \/ \E p \in Procs, k \in Keys, mode \in {"expression", "updateFn"},
          upsert \in BOOLEAN, cc \in CallerConditions :
            UpdateCall(p, k, mode, upsert, cc)
    \/ \E p \in Procs, k \in Keys, cc \in CallerConditions : DeleteCall(p, k, cc)
    \/ \E p \in Procs, lekAtEnd \in BOOLEAN : ReadResponse(p, lekAtEnd)
    \/ \E p \in Procs : WriteResponse(p)
    \/ Tick

Spec == Init /\ [][Next]_vars

\* update called with every combination of expression and transform.
NextModes ==
    \/ \E p \in Procs, k \in Keys, mode \in Modes, upsert \in BOOLEAN :
            UpdateCall(p, k, mode, upsert, <<>>)
    \/ \E p \in Procs, lekAtEnd \in BOOLEAN : ReadResponse(p, lekAtEnd)
    \/ \E p \in Procs : WriteResponse(p)
    \/ Tick

SpecModes == Init /\ [][NextModes]_vars

\* One caller that puts, gets and deletes.
NextRoundTrip ==
    \/ \E k \in Keys, overwrite \in BOOLEAN, cc \in CallerConditions, ts \in {0, CallerTs} :
            PutCall("w1", k, overwrite, cc, ts)
    \/ \E k \in Keys : GetCall("w1", k)
    \/ \E k \in Keys : DeleteCall("w1", k, <<>>)
    \/ \E lekAtEnd \in BOOLEAN : ReadResponse("w1", lekAtEnd)
    \/ WriteResponse("w1")
    \/ Tick

SpecRoundTrip == Init /\ [][NextRoundTrip]_vars

\* The item the caller names by its partition alone (no sort attribute), as
\* by a key pair that is not the primary one.
NoSort == 0

\* One caller that updates and deletes an item it names by its primary key
\* or without its primary sort attribute.
NextKeys ==
    \/ \E k \in Keys \cup {NoSort}, mode \in {"expression", "updateFn"}, upsert \in BOOLEAN :
            UpdateCall("w1", k, mode, upsert, <<>>)
    \/ \E k \in Keys \cup {NoSort} : DeleteCall("w1", k, <<>>)
    \/ \E lekAtEnd \in BOOLEAN : ReadResponse("w1", lekAtEnd)
    \/ WriteResponse("w1")
    \/ Tick

SpecKeys == Init /\ [][NextKeys]_vars

\* The expressions a caller passes: one or two sections under different
\* keywords, in any order, or a bare comma-list; one or two items each.
ItemLists(items) ==
    { <<x>> : x \in items }
    \cup { <<pair[1], pair[2]>> : pair \in { q \in items \X items : q[1] # q[2] } }
SectionsOf(sec) ==
    { Section(sec, items) : items \in ItemLists(KnownItems(sec) \ {TS_ITEM}) }
CallerExpressions ==
    { <<s>> : s \in SectionsOf("SET") \cup SectionsOf("ADD") \cup SectionsOf("REMOVE") }
    \cup { <<s, t>> : s \in SectionsOf("SET"), t \in SectionsOf("ADD") \cup SectionsOf("REMOVE") }
    \cup { <<t, s>> : s \in SectionsOf("SET"), t \in SectionsOf("ADD") \cup SectionsOf("REMOVE") }
    \cup { <<Section("", items)>> : items \in ItemLists(KnownItems("SET") \ {TS_ITEM}) }

\* One caller updating with expressions of every shape.
NextExpr ==
    \/ \E k \in Keys, upsert \in BOOLEAN, exp \in CallerExpressions :
            UpdateExprCall("w1", k, upsert, exp)
    \/ \E lekAtEnd \in BOOLEAN : ReadResponse("w1", lekAtEnd)
    \/ WriteResponse("w1")
    \/ Tick

SpecExpr == Init /\ [][NextExpr]_vars

(***************************************************************************)
(* fetch (index.ts:323-451) and batchDelete (index.ts:250-289).            *)
(***************************************************************************)
BATCH_SIZE == 25

\* _.chunk: the consecutive slices of s of n elements, the last one shorter.
Chunk(s, n) ==
    [i \in 1..((Len(s) + n - 1) \div n) |->
        SubSeq(s, (i - 1) * n + 1, Min(i * n, Len(s)))]

\* A del that sends all the keys of a page in one request.
DelChunksOneGroup(items) ==
    IF items = <<>> THEN <<>> ELSE <<[i \in 1..Len(items) |-> KeyOf(items[i])]>>

\* del (index.ts:253-278): the key attributes of the page's items, grouped;
\* one BatchWriteCommand of DeleteRequests per group, one after the other.
DelChunks(items) == Chunk([i \in 1..Len(items) |-> KeyOf(items[i])], BATCH_SIZE)

Event(e, page, items, key, n) ==
    [e |-> e, page |-> page, items |-> items, key |-> key, n |-> n]

\* A loop that sends the request it sent before.
ContinueSameCursor(f) ==
    IF f.all /\ f.lek # NoKey
    THEN [f EXCEPT !.pc = "query"]
    ELSE [f EXCEPT !.pc = "done"]

\* A loop that sends its later queries without the per-page cap.
ContinueNoLimit(f) ==
    IF f.all /\ f.lek # NoKey
    THEN [f EXCEPT !.pc = "query", !.params.ExclusiveStartKey = f.lek,
                   !.params.Limit = Infinity]
    ELSE [f EXCEPT !.pc = "done"]

\* After a page and its callback: the loop of fetch-all sends the next query
\* from the cursor of the last response, or fetch returns.
Continue(f) ==
    IF f.all /\ f.lek # NoKey
    THEN [f EXCEPT !.pc = "query", !.params.ExclusiveStartKey = f.lek]
    ELSE [f EXCEPT !.pc = "done"]

\* What that step adds to the log: the next request, or the returned
\* { count, items, lastEvaluatedKey } (index.ts:446-450).
ContinueEvents(f) ==
    IF Continue(f).pc = "query"
    THEN <<Event("query", f.npages + 1, <<>>, Continue(f).params.ExclusiveStartKey,
                 f.params.Limit)>>
    ELSE <<Event("resolve", f.npages, f.items, f.lek, Len(f.items))>>

\* A callback handed everything collected so far.
ChunkItemsAccumulated(acc, pageItems) == acc \o pageItems

\* The items the callback of a page receives: those of the page
\* (index.ts:418-421, 434-437).
ChunkItems(acc, pageItems) == pageItems

\* A page that replaces what was collected.
AccumulateReplace(acc, pageItems) == pageItems

\* The items fetch has collected after a page (index.ts:415, 440-442).
Accumulate(acc, pageItems) == acc \o pageItems

\* The callback of a page: batchDelete's del starts on the page's first key
\* group at once; another callback runs to its end.
CallbackChunks(f, items) == IF f.onChunk = "del" THEN DelChunks(items) ELSE <<>>

\* fetch awaits the callback of the first page only (index.ts:418, 434).
Awaited(pg) == pg = 1

\* fetch(item, opts) from a caller whose callback records its calls.
FetchCall(item, all, limit, resume) ==
    /\ fx.pc = "idle" \/ (fx.pc = "done" /\ ~fx.follow)
    /\ resume => fx.pc = "done" /\ fx.lek # NoKey
    /\ LET opts == [FETCH_OPTS EXCEPT !.all = all, !.limit = limit,
                                     !.startKey = IF resume THEN fx.lek ELSE NoKey,
                                     !.onChunk = "record"]
           params == QueryParams(item, opts)
       IN  /\ fx' = [NoFetch EXCEPT !.pc = "query", !.op = "fetch", !.params = params,
                                    !.all = all, !.onChunk = "record",
                                    !.follow = (fx.pc = "done")]
           /\ log' = log \o <<Event("call", 0, <<item>>, opts.startKey, opts.limit),
                              Event("query", 1, <<>>, params.ExclusiveStartKey, params.Limit)>>
    /\ UNCHANGED <<table, clock, pageMax, call, last, ncalls, tasks>>

\* batchDelete(item): fetch in fetch-all mode with del as the page callback.
BatchDeleteCall(item) ==
    /\ fx.pc = "idle"
    /\ LET opts == [FETCH_OPTS EXCEPT !.all = TRUE, !.onChunk = "del"]
           params == QueryParams(item, opts)
       IN  /\ fx' = [NoFetch EXCEPT !.pc = "query", !.op = "batchDelete",
                                    !.params = params, !.all = TRUE, !.onChunk = "del"]
           /\ log' = log \o <<Event("call", 0, <<item>>, params.ExclusiveStartKey, params.Limit),
                              Event("query", 1, <<>>, params.ExclusiveStartKey, params.Limit)>>
    /\ UNCHANGED <<table, clock, pageMax, call, last, ncalls, tasks>>

\* The executor cannot send a query whose :partition value is undefined.
QueryFails(params) == params.partition = ""

\* The executor rejects the outstanding query and fetch rejects with its
\* error.
QueryRejected ==
    /\ fx.pc = "query"
    /\ QueryFails(fx.params)
    /\ fx' = [fx EXCEPT !.pc = "failed", !.error = "ValidationException"]
    /\ log' = log \o <<Event("reject", fx.npages + 1, <<>>, NoKey, 0)>>
    /\ UNCHANGED <<table, clock, pageMax, call, last, ncalls, tasks>>

\* The store answers the outstanding query; the callback is invoked with the
\* page; fetch waits for it (first page) or goes on at once (later pages).
QueryResponse(lekAtEnd) ==
    /\ fx.pc = "query"
    /\ ~QueryFails(fx.params)
    /\ \E res \in {SendQuery(table, fx.params, pageMax, lekAtEnd)} :
       LET pg == fx.npages + 1
           given == ChunkItems(fx.items, res.Items)
           chunks == CallbackChunks(fx, given)
           f == [fx EXCEPT !.npages = pg, !.items = Accumulate(@, res.Items),
                           !.lek = res.LastEvaluatedKey]
           evs == <<Event("page", pg, res.Items, res.LastEvaluatedKey, Len(res.Items)),
                    Event("chunk", pg, given, NoKey, Len(given))>>
                  \o (IF chunks # <<>>
                      THEN <<Event("bdel", pg, chunks[1], NoKey, 1)>>
                      ELSE <<>>)
       IN  /\ tasks' = IF fx.onChunk = "del"
                       THEN Append(tasks, [todo |-> chunks, nth |-> 1])
                       ELSE tasks
           /\ IF Awaited(pg) /\ chunks # <<>>
              THEN /\ fx' = [f EXCEPT !.pc = "await"]
                   /\ log' = log \o evs
              ELSE /\ fx' = Continue(f)
                   /\ log' = log \o evs \o ContinueEvents(f)
    /\ UNCHANGED <<table, clock, pageMax, call, last, ncalls>>

RemoveAll(tbl, keys) ==
    [x \in DOMAIN tbl \ { keys[i].sk : i \in 1..Len(keys) } |-> tbl[x]]

\* The store executes the outstanding bulk delete of page pg; del sends its
\* next group, or ends, and fetch goes on when it was waiting for this del.
BulkDeleteResponse(pg) ==
    /\ pg \in 1..Len(tasks)
    /\ tasks[pg].todo # <<>>
    /\ LET rest == Tail(tasks[pg].todo)
           nth == tasks[pg].nth
           resumes == rest = <<>> /\ fx.pc = "await" /\ Awaited(pg)
       IN  /\ table' = RemoveAll(table, Head(tasks[pg].todo))
           /\ tasks' = [tasks EXCEPT ![pg] = [todo |-> rest, nth |-> nth + 1]]
           /\ fx' = IF resumes THEN Continue(fx) ELSE fx
           /\ log' = log \o <<Event("bdelDone", pg, Head(tasks[pg].todo), NoKey, nth)>>
                         \o (IF rest # <<>>
                             THEN <<Event("bdel", pg, Head(rest), NoKey, nth + 1)>>
                             ELSE IF resumes THEN ContinueEvents(fx) ELSE <<>>)
    /\ UNCHANGED <<clock, pageMax, call, last, ncalls>>

PageSizes == (1..MaxSmallPage) \cup {BATCH_SIZE + 1}
Limits == (0..MaxLimit) \cup {Infinity}
FetchItems == {Item(0, 0, ""), Item(1, 0, ""), NoItem}

\* The numbers of stored items: up to MaxPages pages of a small store page;
\* around one and two key groups of del for the large store page.
Partitions(cap) ==
    IF cap <= MaxSmallPage
    THEN 0..(MaxPages * cap)
    ELSE {BATCH_SIZE, BATCH_SIZE + 1, BATCH_SIZE + 2, 2 * BATCH_SIZE + 3}

\* A partition written by one batchWrite.
InitPages ==
    /\ clock = 1
    /\ pageMax \in PageSizes
    /\ \E n \in Partitions(pageMax) : table = [k \in 1..n |-> Item(k, 1, "w0")]
    /\ call = [p \in Procs |-> Idle]
    /\ last = NoLast
    /\ ncalls = 0
    /\ fx = NoFetch
    /\ tasks = <<>>
    /\ log = <<>>

NextPages ==
    \/ \E item \in FetchItems, all \in BOOLEAN, limit \in Limits, resume \in BOOLEAN :
          FetchCall(item, all, limit, resume)
    \/ \E item \in FetchItems : BatchDeleteCall(item)
    \/ \E lekAtEnd \in BOOLEAN : QueryResponse(lekAtEnd)
    \/ QueryRejected
    \/ \E pg \in 1..MaxPages + 1 : BulkDeleteResponse(pg)

SpecPages == InitPages /\ [][NextPages]_vars

(***************************************************************************)
(* Claims on the optimistic write gate, under Spec.                        *)
(***************************************************************************)
Rejected(l) == ~l.ok /\ l.error = "ConditionalCheckFailedException" /\ l.after = l.before
NoOr(cc) == \A i \in 1..Len(cc) : cc[i] # "OR"

\* C1: no lost update.  An update (either mode, no caller condition) that has
\* read the item, and whose write is evaluated after another writer's put or
\* update to that item, issued at a later clock value than the version read,
\* has succeeded, is rejected with a conditional-check failure and does not
\* change the item.
C1_NoLostUpdate ==
    (last.op = "update" /\ last.cc = <<>> /\ last.staleLater) => Rejected(last)

C3_TsIsClock ==
    (last.ok /\ last.op \in {"put", "update"}) => last.after.ts = last.now

\* C4: delete (no caller condition) removes the item only if its stored __ts
\* equals the __ts its own read returned, and a delete whose read was followed
\* by another successful write to the item, issued at a later clock value
\* than the version read, fails with a conditional-check failure and leaves
\* the item stored.
C4_DeleteGuard ==
    (last.op = "delete" /\ last.cc = <<>> /\ last.error # "null") =>
        /\ last.ok => last.before.ts = last.current.ts
        /\ last.staleLater => Rejected(last) /\ last.after # NoItem

(***************************************************************************)
(* Claims on fetch and batchDelete, under SpecPages.                       *)
(***************************************************************************)
\* The events of the call in progress (or just returned) that fetch itself
\* produced: its requests, the pages, the callbacks, the return.
CurStart == CHOOSE i \in 1..Len(log) :
                log[i].e = "call" /\ \A j \in (i + 1)..Len(log) : log[j].e # "call"
Cur == SelectSeq(SubSeq(log, CurStart, Len(log)),
                 LAMBDA ev : ev.e \in {"call", "query", "page", "chunk", "resolve"})
Kind(c, e) == { i \in 1..Len(c) : c[i].e = e }

RECURSIVE SumN(_)
SumN(evs) == IF evs = <<>> THEN 0 ELSE Head(evs).n + SumN(Tail(evs))

\* The stored items that match the key condition and follow the start key,
\* each once, in sort order.
ExpectedItems(tbl, kc, startKey) ==
    LET ks == { k \in DOMAIN tbl : (kc.bySort => k = kc.sk) /\ k > startKey.sk }
    IN  [i \in 1..Cardinality(ks) |->
            tbl[CHOOSE k \in ks : Cardinality({ j \in ks : j <= k }) = i]]

\* C5: in fetch-all mode the page callback is invoked exactly once per page
\* the store returned, in page order, with that page's items and their
\* number as count; the callback of page p is invoked before the request for
\* page p+1 is issued; the call returns the total number of items of all
\* pages as count and a null cursor.
C5_CallbackPerPage ==
    (fx.pc # "idle" /\ fx.all) =>
        LET c == Cur
        IN  /\ \A i \in Kind(c, "page") :
                  /\ i < Len(c) /\ c[i + 1].e = "chunk"
                  /\ c[i + 1].page = c[i].page
                  /\ c[i + 1].items = c[i].items
                  /\ c[i + 1].n = Len(c[i].items)
                  /\ c[i].page = Cardinality({ j \in Kind(c, "page") : j <= i })
            /\ \A i \in Kind(c, "chunk") : i > 1 /\ c[i - 1].e = "page"
            /\ \A i \in Kind(c, "query") :
                  c[i].page > 1 =>
                      \E j \in Kind(c, "chunk") : j < i /\ c[j].page = c[i].page - 1
            /\ \A i \in Kind(c, "resolve") :
                  /\ c[i].key = NoKey
                  /\ c[i].n = SumN(SelectSeq(c, LAMBDA ev : ev.e = "page"))
                  /\ c[i].page = Cardinality(Kind(c, "page"))

\* 5 items with cap 2: three callbacks with counts 2, 2, 1, count 5, cursor
\* null.
C5_Witness ==
    /\ fx.op = "fetch" /\ fx.all /\ fx.pc = "done" /\ fx.params.Limit = 2
    /\ LET c == Cur
           chunks == SelectSeq(c, LAMBDA ev : ev.e = "chunk")
       IN  /\ [i \in 1..Len(chunks) |-> chunks[i].n] = <<2, 2, 1>>
           /\ c[Len(c)].e = "resolve" /\ c[Len(c)].n = 5 /\ c[Len(c)].key = NoKey

\* C6: on a partition no one modifies, fetch in fetch-all mode returns every
\* stored item that matches the key condition (and follows the start key)
\* exactly once, in the store's order, for every per-page cap; without
\* fetch-all it returns exactly the items of the first page.
C6_FetchAllComplete ==
    (fx.op = "fetch" /\ fx.pc = "done" /\ tasks = <<>>) =>
        LET c == Cur
            r == c[Len(c)]
            expected == ExpectedItems(table, fx.params.kc, c[1].key)
        IN  /\ r.e = "resolve"
            /\ fx.all => r.items = expected /\ r.n = Len(expected)
            /\ ~fx.all =>
                  /\ r.items = SubSeq(expected, 1,
                                      Min(Len(expected), Min(fx.params.Limit, pageMax)))
                  /\ r.items = c[CHOOSE i \in Kind(c, "page") : c[i].page = 1].items

\* A fetch-all of at least three pages has returned.
C6_Witness ==
    /\ fx.op = "fetch" /\ fx.pc = "done" /\ tasks = <<>> /\ fx.all
    /\ fx.npages >= 3 /\ Len(fx.items) >= 3
    /\ fx.items = ExpectedItems(table, PartitionOnly, NoKey)

\* The first call of the run, and the follow-up call when there is one.
FirstEnd == IF Cardinality(Kind(log, "call")) > 1 THEN CurStart - 1 ELSE Len(log)
First == SelectSeq(SubSeq(log, 1, FirstEnd),
                   LAMBDA ev : ev.e \in {"call", "query", "page", "chunk", "resolve"})
\* The follow-up fetch has returned; it took the cursor the first fetch
\* returned as its start key, with the same item.
Resumed ==
    /\ fx.op = "fetch" /\ fx.follow /\ fx.pc = "done" /\ tasks = <<>>
    /\ First[Len(First)].key # NoKey
    /\ Cur[1].key = First[Len(First)].key
    /\ Cur[1].items = First[1].items

\* C7 as stated: a fetch without fetch-all and with a per-page cap returned a
\* cursor; a following fetch from that cursor returns exactly the items after
\* that page, so that the two results together equal the full result, and
\* its cursor is null.
C7_CursorResumption_Original ==
    (Resumed /\ First[1].n \notin {0, Infinity}) =>
        LET both == First[Len(First)].items \o Cur[Len(Cur)].items
        IN  /\ both = ExpectedItems(table, fx.params.kc, First[1].key)
            /\ Cur[Len(Cur)].key = NoKey

\* C7, amended: a fetch without fetch-all issues exactly one page request and
\* returns that page with the cursor the store reported; a following fetch
\* from that cursor returns items that directly follow that page, in order,
\* so the two results together are a prefix of the full result with no item
\* repeated or skipped, and they are the full result whenever the following
\* fetch returns a null cursor.
C7_CursorResumption ==
    /\ (fx.op = "fetch" /\ fx.pc = "done" /\ ~fx.all) =>
          /\ Cardinality(Kind(Cur, "query")) = 1
          /\ Cur[Len(Cur)].items = Cur[3].items
          /\ Cur[Len(Cur)].key = Cur[3].key
          /\ Cur[3].e = "page"
    /\ Resumed =>
          LET both == First[Len(First)].items \o Cur[Len(Cur)].items
              full == ExpectedItems(table, fx.params.kc, First[1].key)
          IN  /\ Len(both) <= Len(full)
              /\ both = SubSeq(full, 1, Len(both))
              /\ Cur[Len(Cur)].key = NoKey => both = full

\* A capped fetch returned one item and a cursor, and the fetch resumed from
\* it returned the other items and a null cursor.
C7_Witness ==
    /\ Resumed /\ ~fx.all
    /\ First[1].n = 1 /\ Len(First[Len(First)].items) = 1
    /\ Len(Cur[Len(Cur)].items) >= 2
    /\ Cur[Len(Cur)].key = NoKey

\* The items of page pg of the first call, and the bulk-delete requests
\* issued for it so far.
PageItems(pg) ==
    First[CHOOSE i \in 1..Len(First) : First[i].e = "page" /\ First[i].page = pg].items
DelRequests(pg) == SelectSeq(log, LAMBDA ev : ev.e = "bdel" /\ ev.page = pg)
RECURSIVE Flatten(_)
Flatten(ss) == IF ss = <<>> THEN <<>> ELSE Head(ss) \o Flatten(Tail(ss))
\* Requests sent to the store and not yet answered.
Outstanding ==
    (IF fx.pc = "query" THEN 1 ELSE 0)
    + Cardinality({pg \in 1..Len(tasks) : tasks[pg].todo # <<>>})

\* C8: in batchDelete, when the query for page p+1 is issued every
\* bulk-delete request for page p has been issued and has completed, and at
\* most one request to the store is outstanding at any time.
C8_DeletesBeforeNextQuery ==
    fx.op = "batchDelete" =>
        /\ \A i \in Kind(log, "query") : log[i].page > 1 =>
              LET p == log[i].page - 1
                  sent == {j \in Kind(log, "bdel") : j < i /\ log[j].page = p}
                  done == {j \in Kind(log, "bdelDone") : j < i /\ log[j].page = p}
              IN  /\ Cardinality(sent) = Len(DelChunks(PageItems(p)))
                  /\ Cardinality(done) = Cardinality(sent)
        /\ Outstanding <= 1

\* C9: when batchDelete resolves every item it returns has been deleted and
\* what it returns is the pages' items in page order; a fetch of the same key
\* issued after it resolved returns no item.
C9_DeletedWhenResolved ==
    /\ (fx.op = "batchDelete" /\ fx.pc = "done") =>
          /\ \A pg \in 1..Len(tasks) : tasks[pg].todo = <<>>
          /\ \A i \in 1..Len(fx.items) :
                \A k \in DOMAIN table : KeyOf(table[k]) # KeyOf(fx.items[i])
          /\ fx.items = Flatten([pg \in 1..fx.npages |-> PageItems(pg)])
    /\ (fx.op = "fetch" /\ fx.pc = "done" /\ fx.follow /\ Len(tasks) >= 1
        /\ Cur[1].items = First[1].items) =>
          Cur[Len(Cur)].items = <<>>

\* C10: for a page of m matched items batchDelete issues ceil(m/25)
\* bulk-delete requests, each of 1 to 25 keys that hold only the partition
\* and the sort attribute of that page's items, in the page's order; when no
\* item matches it issues no delete request and returns the empty collection.
C10_DeleteGroups ==
    \A pg \in 1..Len(tasks) :
        LET m == Len(PageItems(pg))
            keys == [i \in 1..m |-> [pk |-> PageItems(pg)[i].pk, sk |-> PageItems(pg)[i].sk]]
            reqs == DelRequests(pg)
            sent == Flatten([r \in 1..Len(reqs) |-> reqs[r].items])
            ceil == CHOOSE c \in 0..m : 25 * c >= m /\ (c = 0 \/ 25 * (c - 1) < m)
        IN  /\ \A r \in 1..Len(reqs) :
                  /\ Len(reqs[r].items) \in 1..25
                  /\ \A i \in 1..Len(reqs[r].items) :
                        DOMAIN reqs[r].items[i] = {"pk", "sk"}
            /\ Len(sent) <= m /\ sent = SubSeq(keys, 1, Len(sent))
            /\ Len(reqs) <= ceil
            /\ tasks[pg].todo = <<>> => Len(reqs) = ceil /\ sent = keys
            /\ m = 0 => reqs = <<>>
            /\ (fx.op = "batchDelete" /\ fx.pc = "done" /\ SumN(SelectSeq(First, LAMBDA ev : ev.e = "page")) = 0)
                  => Kind(log, "bdel") = {} /\ fx.items = <<>>

\* All the deletes of a page of 26 items are done: 25 keys, then 1.
C10_Witness ==
    \E pg \in 1..Len(tasks) :
        /\ Len(PageItems(pg)) = 26 /\ tasks[pg].todo = <<>>
        /\ Len(DelRequests(pg)) = 2
        /\ Len(DelRequests(pg)[1].items) = 25 /\ Len(DelRequests(pg)[2].items) = 1

(***************************************************************************)
(* batchWrite (index.ts:224-248).                                          *)
(***************************************************************************)
\* A stamp that leaves every item the __ts it came with.
StampNone(items, ts) == items

\* items = _.map(items, item => ({ ...item, __ts: ts })): new objects, each
\* the input item with __ts added or replaced (index.ts:227-229).
Stamp(items, ts) == [i \in 1..Len(items) |-> [items[i] EXCEPT !.ts = ts]]

\* The caller's array after the call: _.map and the spread build new
\* objects, the parameter alone is rebound (index.ts:227).
CallerItemsAfter(input, ts) == input

\* One group holding every item.
WriteChunksOneGroup(items) == IF items = <<>> THEN <<>> ELSE <<items>>

\* _.chunk(items, 25) (index.ts:231).
WriteChunks(items) == Chunk(items, BATCH_SIZE)

\* A BatchWriteCommand of PutRequests as the store executes it: every item
\* replaces what its key held.
PutAll(tbl, items) ==
    LET ks == { items[i].sk : i \in 1..Len(items) }
    IN  [k \in DOMAIN tbl \cup ks |->
            IF k \in ks THEN items[CHOOSE i \in 1..Len(items) : items[i].sk = k]
            ELSE tbl[k]]

\* The caller's array: n items of distinct keys, in ascending or descending
\* key order, every other one carrying a __ts of the caller's (c, 0: none).
BatchInput(n, c, rev) ==
    [i \in 1..n |-> Item(IF rev THEN n + 1 - i ELSE i, IF i % 2 = 1 THEN c ELSE 0, "b")]

\* batchWrite(items): the clock is read once, the items are stamped and
\* grouped, and the first group is sent; without items the call returns.
BatchWriteCall(n, c, rev) ==
    /\ fx.pc = "idle"
    /\ LET input == BatchInput(n, c, rev)
           ts == clock
           items == Stamp(input, ts)
           chunks == WriteChunks(items)
           called == Event("call", 0, input, NoKey, ts)
       IN  /\ tasks' = <<[todo |-> chunks, nth |-> 1]>>
           /\ IF chunks = <<>>
              THEN /\ fx' = [NoFetch EXCEPT !.pc = "done", !.op = "batchWrite",
                                           !.items = items]
                   /\ log' = log \o <<called,
                                      Event("caller", 0, CallerItemsAfter(input, ts), NoKey, n),
                                      Event("resolve", 0, items, NoKey, Len(items))>>
              ELSE /\ fx' = [NoFetch EXCEPT !.pc = "write", !.op = "batchWrite",
                                           !.items = items]
                   /\ log' = log \o <<called, Event("bwrite", 1, chunks[1], NoKey, 1)>>
    /\ last' = NoLast
    /\ UNCHANGED <<table, clock, pageMax, call, ncalls>>

\* The store executes the outstanding bulk write; batchWrite sends its next
\* group or returns the stamped items.
BulkWriteResponse ==
    /\ fx.op = "batchWrite" /\ fx.pc = "write"
    /\ LET todo == tasks[1].todo
           nth == tasks[1].nth
           rest == Tail(todo)
           input == log[1].items
       IN  /\ table' = PutAll(table, Head(todo))
           /\ tasks' = <<[todo |-> rest, nth |-> nth + 1]>>
           /\ fx' = [fx EXCEPT !.pc = IF rest = <<>> THEN "done" ELSE "write",
                               !.npages = nth]
           /\ log' = log \o <<Event("bwriteDone", nth, Head(todo), NoKey, nth)>>
                         \o (IF rest # <<>>
                             THEN <<Event("bwrite", nth + 1, Head(rest), NoKey, nth + 1)>>
                             ELSE <<Event("caller", 0, CallerItemsAfter(input, log[1].n),
                                          NoKey, Len(input)),
                                    Event("resolve", nth, fx.items, NoKey, Len(fx.items))>>)
    /\ last' = NoLast
    /\ UNCHANGED <<clock, pageMax, call, ncalls>>

\* Numbers of items around one, two and three groups.
BatchSizes == {0, 1, 2, BATCH_SIZE, BATCH_SIZE + 1, 2 * BATCH_SIZE, 2 * BATCH_SIZE + 2}

NextBatch ==
    \/ \E n \in BatchSizes, c \in {0, CallerTs}, rev \in BOOLEAN : BatchWriteCall(n, c, rev)
    \/ BulkWriteResponse
    \/ Tick

SpecBatch == Init /\ [][NextBatch]_vars

(***************************************************************************)
(* Claims on batchWrite, under SpecBatch.                                  *)
(***************************************************************************)
WriteRequests == SelectSeq(log, LAMBDA ev : ev.e = "bwrite")
Unstamped(items) == [i \in 1..Len(items) |-> [items[i] EXCEPT !.ts = 0]]

\* C11: batchWrite of n items issues ceil(n/25) bulk-write requests (none
\* for n = 0), each of 1 to 25 items; the requests carry the consecutive
\* slices of the input in input order, so that every input item is written
\* by exactly one request.
C11_WriteGroups ==
    fx.op = "batchWrite" =>
        LET input == log[1].items
            n == Len(input)
            reqs == WriteRequests
            sent == Flatten([r \in 1..Len(reqs) |-> reqs[r].items])
            ceil == CHOOSE c \in 0..n : 25 * c >= n /\ (c = 0 \/ 25 * (c - 1) < n)
        IN  /\ \A r \in 1..Len(reqs) :
                  /\ Len(reqs[r].items) \in 1..25
                  /\ Unstamped(reqs[r].items)
                        = Unstamped(SubSeq(input, 25 * (r - 1) + 1, Min(25 * r, n)))
            /\ Len(reqs) <= ceil
            /\ fx.pc = "done" => Len(reqs) = ceil /\ Unstamped(sent) = Unstamped(input)
            /\ n = 0 => reqs = <<>> /\ fx.pc = "done"

\* 52 items were written by three requests of 25, 25 and 2 items.
C11_Witness ==
    /\ fx.op = "batchWrite" /\ fx.pc = "done"
    /\ Len(log[1].items) = 52
    /\ [r \in 1..Len(WriteRequests) |-> Len(WriteRequests[r].items)] = <<25, 25, 2>>

\* C12: every item one batchWrite call writes carries the clock value read
\* at the start of the call, in every group; the call returns the input
\* items in input order with only __ts added or replaced, and the caller's
\* items are as they were.
C12_OneTimestamp ==
    fx.op = "batchWrite" =>
        LET input == log[1].items
            ts == log[1].n
            reqs == WriteRequests
        IN  /\ \A r \in 1..Len(reqs) : \A i \in 1..Len(reqs[r].items) :
                  reqs[r].items[i].ts = ts
            /\ \A i \in Kind(log, "bwriteDone") : \A j \in 1..Len(log[i].items) :
                  Stored(table, log[i].items[j].sk).ts = ts
            /\ fx.pc = "done" =>
                  /\ log[Len(log)].e = "resolve"
                  /\ log[Len(log)].items = [i \in 1..Len(input) |-> [input[i] EXCEPT !.ts = ts]]
                  /\ log[Len(log) - 1].e = "caller"
                  /\ log[Len(log) - 1].items = input

\* Two groups were written while the clock advanced, the input carrying
\* timestamps of the caller's: all the items hold the first clock value.
C12_Witness ==
    /\ fx.op = "batchWrite" /\ fx.pc = "done"
    /\ Len(log[1].items) = 26 /\ log[1].items[1].ts = CallerTs
    /\ clock > log[1].n
    /\ \A k \in 1..26 : Stored(table, k).ts = log[1].n

(***************************************************************************)
(* Claims on the modes of update, under SpecModes.                         *)
(***************************************************************************)
\* C13: an update whose read finds no item, without upsert, ends with the
\* error 'Item not found' in either mode, with no write request built and
\* the store as it was; with upsert it goes on to its write request.
C13_ItemNotFound ==
    [][\A p \in Procs :
        (/\ call[p].pc = "reading" /\ call[p].op = "update"
         /\ call[p].mode \in {"expression", "updateFn"}
         /\ call'[p] # call[p]
         /\ Stored(table, call[p].item.sk) = NoItem) =>
            IF call[p].upsert
            THEN /\ call'[p].pc = "writing"
                 /\ call'[p].req.cmd \in {"Put", "Update"}
                 /\ last' = NoLast
            ELSE /\ call'[p] = Idle
                 /\ last'.op = "update" /\ ~last'.ok /\ last'.error = "Item not found"
                 /\ last'.req = NoReq
                 /\ table' = table]_vars

\* An expression-mode update without upsert ended on a missing item.
C13_Witness ==
    /\ last.op = "update" /\ last.mode = "expression" /\ ~last.upsert
    /\ last.error = "Item not found" /\ last.before = NoItem
    /\ table = <<>>

\* C14: a transform-mode update applies the transform to the item its read
\* found, or to the caller's key item when it upserts a missing item, and
\* sends one overwriting put, guarded by the update condition, of the
\* transform's output with __ts set to the clock; when it succeeds the
\* stored item is that output plus __ts and nothing else.
C14_TransformPersisted ==
    (last.op = "update" /\ last.mode = "updateFn" /\ last.req # NoReq) =>
        LET input == IF last.current = NoItem THEN last.item ELSE last.current
            output == UpdateFn(input, last.val)
        IN  /\ last.req.cmd = "Put"
            /\ last.req.cond = <<TS_ABSENT_OR_EQ>>
            /\ last.req.item = [output EXCEPT !.ts = last.now]
            /\ last.ok => last.after = [output EXCEPT !.ts = last.now]
            /\ (last.ok /\ last.current = NoItem) =>
                  last.after = Item(last.item.sk, last.now, last.val)

\* A transform-mode update changed a stored item: what is stored is the
\* transform of what was read.
C14_Witness ==
    /\ last.op = "update" /\ last.mode = "updateFn" /\ last.ok
    /\ last.current # NoItem /\ last.current.val = "w0"
    /\ last.after.val = last.val \o "<" \o "w0"
    /\ last.after.ts = last.now /\ last.now > last.current.ts

\* C16: an update called with both an expression and a transform, or with
\* neither, sends no write request and fails with a usage error.
C16_ModesExclusive ==
    /\ \A p \in Procs :
          (call[p].op = "update" /\ call[p].mode \in {"both", "neither"}) =>
              call[p].pc # "writing"
    /\ (last.op = "update" /\ last.mode \in {"both", "neither"}) =>
          ~last.ok /\ last.error \notin {"", "Item not found"} /\ last.req = NoReq

(***************************************************************************)
(* Claims on the update expression, under SpecExpr.                        *)
(***************************************************************************)
\* C15: an expression-mode update sends one conditional UpdateCommand whose
\* update expression holds every item of the caller's expression, in its
\* section (SET for a bare comma-list), and the item #__ts = :__ts in the
\* SET section; the call returns the item as the store holds it afterwards.
C15_ExpressionMerged ==
    /\ \A p \in Procs :
          (call[p].pc = "writing" /\ call[p].op = "update" /\ call[p].mode = "expression") =>
              LET req == call[p].req
                  exp == call[p].exp
              IN  /\ req.cmd = "Update"
                  /\ req.cond = <<TS_ABSENT_OR_EQ>>
                  /\ TS_ITEM \in RefItems(req.expr, "SET")
                  /\ \A i \in 1..Len(exp) : \A j \in 1..Len(exp[i].items) :
                        exp[i].items[j]
                            \in RefItems(req.expr, IF exp[i].sec = "" THEN "SET" ELSE exp[i].sec)
    /\ (last.op = "update" /\ last.mode = "expression" /\ last.ok) =>
          last.returned = last.after

(***************************************************************************)
(* Resolving items, under SpecResolve.                                     *)
(***************************************************************************)
\* An instance is built with a list of indexes; the caller resolves items.
AttributeNames == {"pk", "sk", "lsiSk", "gsiPk", "gsiSk"}
Values == {"v", "", "null"}
ResolveItems == UNION { [names -> Values] : names \in SUBSET AttributeNames }
IndexLists ==
    { <<>>, <<LS_INDEX>>, <<GS_INDEX>>, <<LS_INDEX, GS_INDEX>>, <<GS_INDEX, LS_INDEX>>,
      <<GS_SK_INDEX, GS_INDEX>>, <<GS_INDEX, GS_SK_INDEX, LS_INDEX>> }

InitResolve ==
    /\ clock = 1
    /\ table = <<>>
    /\ pageMax = 1
    /\ call = [p \in Procs |-> Idle]
    /\ last = NoLast
    /\ ncalls = 0
    /\ fx = NoFetch
    /\ tasks = <<>>
    /\ \E indexes \in IndexLists : log = <<[e |-> "instance", indexes |-> indexes]>>

\* optimisticResolveSchema(item) on the instance.
ResolveCall(item) ==
    /\ Len(log) = 1
    /\ log' = <<log[1],
                [e |-> "resolved", item |-> item,
                 result |-> OptimisticResolveSchema(item, SCHEMA, log[1].indexes)]>>
    /\ UNCHANGED <<table, clock, pageMax, call, last, ncalls, fx, tasks>>

NextResolve == \E item \in ResolveItems : ResolveCall(item)

SpecResolve == InitResolve /\ [][NextResolve]_vars

(***************************************************************************)
(* Claims on the resolver, under SpecResolve.                              *)
(***************************************************************************)
\* C17: the resolver returns the primary schema when the item holds both
\* primary key attributes, whatever else it holds; otherwise the first index
\* in declaration order whose partition and sort attributes the item both
\* holds; otherwise no target and an empty schema.  An attribute the item
\* holds with a falsy value counts as held.
C17_Resolver ==
    (Len(log) = 2 /\ log[2].e = "resolved") =>
        LET item == log[2].item
            indexes == log[1].indexes
            result == log[2].result
            held(i) == indexes[i].partition \in DOMAIN item /\ indexes[i].sort \in DOMAIN item
            matching == { i \in 1..Len(indexes) : held(i) }
        IN  IF {"pk", "sk"} \subseteq DOMAIN item
            THEN result = [index |-> "sort", schema |-> [partition |-> "pk", sort |-> "sk"]]
            ELSE IF matching # {}
            THEN LET i == CHOOSE x \in matching : \A y \in matching : x <= y
                 IN  result = [index |-> indexes[i].name,
                               schema |-> [partition |-> indexes[i].partition,
                                           sort |-> indexes[i].sort]]
            ELSE result = [index |-> "", schema |-> [partition |-> "", sort |-> ""]]

\* An item that holds both index pairs, with falsy values for the first
\* declared one, and not the primary pair: the first declared index.
C17_Witness ==
    /\ Len(log) = 2 /\ log[2].e = "resolved"
    /\ log[1].indexes = <<LS_INDEX, GS_INDEX>>
    /\ log[2].item = [n \in {"pk", "lsiSk", "gsiPk", "gsiSk"} |->
                        IF n \in {"pk", "lsiSk"} THEN "" ELSE "v"]
    /\ log[2].result.index = "ls-index"

(***************************************************************************)
(* Claims on the key fetch queries by, under SpecPages.                    *)
(***************************************************************************)
\* C18: a fetch called with an item for which the resolver finds no
\* complete key pair fails with a usage error and sends no request.
C18_NoKeyPairIsUsageError ==
    (fx.op = "fetch" /\ Resolve(Cur[1].items[1]).index = "") =>
        /\ Kind(Cur, "query") = {}
        /\ fx.pc = "failed" /\ fx.error = "UsageError"

\* C19: a fetch called with an item that holds the primary partition
\* attribute alone sends a query whose key condition is equality on the
\* primary partition, with no sort condition and no index name, and
\* returns the items of that partition: all of them (after the start key)
\* in fetch-all mode, those of the first page without it (on a partition no
\* one modifies meanwhile).
C19_PartitionOnly ==
    (fx.op = "fetch" /\ Cur[1].items[1] = Item(0, 0, "")) =>
        /\ fx.params.kc = PartitionOnly
        /\ fx.params.partition = PK
        /\ fx.params.IndexName = ""
        /\ fx.pc # "failed"
        /\ (fx.pc = "done" /\ tasks = <<>>) =>
              LET r == Cur[Len(Cur)]
                  stored == ExpectedItems(table, [bySort |-> FALSE, sk |-> 0], Cur[1].key)
              IN  /\ r.e = "resolve"
                  /\ Len(r.items) <= Len(stored)
                  /\ r.items = SubSeq(stored, 1, Len(r.items))
                  /\ (fx.all \/ r.key = NoKey) => r.items = stored

\* A plain fetch by the partition alone returned the two stored items.
C19_Witness ==
    /\ fx.op = "fetch" /\ fx.pc = "done" /\ ~fx.all /\ ~fx.follow /\ tasks = <<>>
    /\ Cur[1].items[1] = Item(0, 0, "")
    /\ fx.params.Limit = Infinity
    /\ Len(fx.items) = 2 /\ DOMAIN table = 1..2
    /\ fx.items = [k \in 1..2 |-> table[k]]

(***************************************************************************)
(* Claims on put followed by get, under SpecRoundTrip.                     *)
(***************************************************************************)
\* C20: a get that follows a successful put of the same key, with no other
\* writer in between, returns an item whose attributes other than __ts are
\* those that were put and whose __ts is a number; a get returns null when
\* no item has the key.
C20_RoundTrip ==
    last.op = "get" =>
        /\ last.ok /\ last.error = ""
        /\ (last.prev.cmd = "Put" /\ last.prev.key = KeyOf(last.item)) =>
              /\ last.returned # NoItem
              /\ [last.returned EXCEPT !.ts = 0] = [last.prev.item EXCEPT !.ts = 0]
              /\ last.returned.ts \in 1..MaxClock
        /\ Stored(table, last.item.sk) = NoItem => last.returned = NoItem

\* A get returned what the put before it stored, with the clock value as
\* __ts although the caller's item carried another.
C20_Witness ==
    /\ last.op = "get" /\ last.prev.cmd = "Put"
    /\ last.returned = Item(1, last.returned.ts, "w1")
    /\ last.returned.ts \in 2..MaxClock

(***************************************************************************)
(* Claims on delete, under Spec.                                           *)
(***************************************************************************)
\* C21: delete first reads the item under the caller's key.  When the read
\* finds none the call returns null, with no delete request built and the
\* store as it was.  Otherwise it sends one delete request, conditional on
\* the __ts it read, for the key of the item it read, and nothing else; when
\* the store accepts the request the call returns the item as it was stored
\* just before and the item is stored no longer.
C21_DeleteReadsThenDeletes ==
    [][\A p \in Procs :
        (call[p].op = "delete" /\ call'[p] # call[p]) =>
            LET k == call[p].item.sk
            IN  IF call[p].pc = "reading"
                THEN /\ table' = table
                     /\ IF Stored(table, k) = NoItem
                        THEN /\ call'[p] = Idle
                             /\ last'.op = "delete" /\ last'.error = "null"
                             /\ last'.returned = NoItem /\ last'.req = NoReq
                        ELSE /\ call'[p].pc = "writing"
                             /\ call'[p].req.cmd = "Delete"
                             /\ call'[p].req.key = KeyOf(Stored(table, k))
                             /\ call'[p].req.cond[1] = TS_EXISTS_AND_EQ
                             /\ call'[p].req.ts = Stored(table, k).ts
                ELSE IF call'[p].pc = "writing"
                THEN call'[p].req = call[p].req
                ELSE /\ call'[p] = Idle
                     /\ last'.op = "delete" /\ last'.req = call[p].req
                     /\ IF last'.ok
                        THEN /\ Stored(table, k) # NoItem
                             /\ last'.returned = Stored(table, k)
                             /\ Stored(table', k) = NoItem
                        ELSE table' = table]_vars

\* A delete read the stored item, deleted it and returned it.
C21_Witness ==
    /\ last.op = "delete" /\ last.ok
    /\ last.returned = Item(1, 1, "w0")
    /\ last.req.cmd = "Delete"
    /\ table = <<>>

(***************************************************************************)
(* Merging condition expressions, under SpecCond.                          *)
(***************************************************************************)
\* The fragments merged: empty, blank, bare conditions with and without
\* whitespace around them, conditions that open with a joiner, a joiner
\* alone, and conditions whose first word opens with the letters of a joiner.
X_COND == "#x = :x"
Y_COND == "#y = :y"
ORDER_COND == <<"OR", "DER = :o">>
ANDROID_COND == <<"AND", "ROID = :a">>
ConditionFragments ==
    { <<>>, <<" ">>,
      <<X_COND>>, <<" ", Y_COND, " ">>, <<X_COND, " ", "OR", " ", Y_COND>>,
      <<CALLER_ATOM>>,
      <<"OR", " ", X_COND>>, <<"AND", " ", Y_COND>>, <<" ", "OR", " ", " ", Y_COND, " ">>,
      <<"OR">>,
      ORDER_COND, ANDROID_COND }

InitCond ==
    /\ clock = 1
    /\ table = <<>>
    /\ pageMax = 1
    /\ call = [p \in Procs |-> Idle]
    /\ last = NoLast
    /\ ncalls = 0
    /\ fx = NoFetch
    /\ tasks = <<>>
    /\ \E a \in ConditionFragments, b \in ConditionFragments :
          log = <<[e |-> "input", exp1 |-> a, exp2 |-> b]>>

\* concatConditionExpression(exp1, exp2) is called.
ConcatConditionCall ==
    /\ Len(log) = 1
    /\ log' = Append(log, [e |-> "merged",
                           result |-> ConcatConditionExpression(log[1].exp1, log[1].exp2)])
    /\ UNCHANGED <<table, clock, pageMax, call, last, ncalls, fx, tasks>>

NextCond == ConcatConditionCall

SpecCond == InitCond /\ [][NextCond]_vars

Merged == Len(log) = 2 /\ log[2].e = "merged"
Blank(s) == Trim(s, WHITESPACE) = <<>>

\* The fragment opens with a joiner: the word AND or OR, after whitespace if
\* any.
OpensWithJoiner(s) ==
    LET t == Trim(s, WHITESPACE)
    IN  /\ t # <<>> /\ t[1] \in JOINERS
        /\ Len(t) = 1 \/ t[2] \in WHITESPACE

JoinerCount(s) == Cardinality({ i \in 1..Len(s) : s[i] \in JOINERS /\ OpensWithJoiner(SubSeq(s, i, Len(s))) })

\* C22: for fragments a and b that are not blank, b not opening with a
\* joiner, the merge is trim(a), ' AND ', trim(b).
C22_AndInserted ==
    (Merged /\ ~Blank(log[1].exp1) /\ ~Blank(log[1].exp2) /\ ~OpensWithJoiner(log[1].exp2)) =>
        log[2].result = Trim(log[1].exp1, WHITESPACE) \o <<" ", "AND", " ">>
                            \o Trim(log[1].exp2, WHITESPACE)

\* C23: when b opens with a joiner, the merge is trim(a), one space, trim(b)
\* for a that is not blank: b's joiner stands between the two, once, and no
\* AND is inserted; for a blank a the merge is made of words of b alone.
C23_JoinerKept ==
    (Merged /\ OpensWithJoiner(log[1].exp2)) =>
        LET a == Trim(log[1].exp1, WHITESPACE)
            b == Trim(log[1].exp2, WHITESPACE)
            r == log[2].result
        IN  /\ ~Blank(a) => r = a \o <<" ">> \o b
            /\ JoinerCount(r) <= JoinerCount(a) + JoinerCount(b)
            /\ Blank(a) =>
                  \E i \in 1..(Len(Words(b)) + 1) : Words(r) = SubSeq(Words(b), i, Len(Words(b)))

\* 'x' merged with ' OR  y ' is 'x OR  y'.
C23_Witness ==
    /\ Merged
    /\ log[1].exp1 = <<X_COND>> /\ log[1].exp2 = <<" ", "OR", " ", " ", Y_COND, " ">>
    /\ log[2].result = <<X_COND, " ", "OR", " ", " ", Y_COND>>

\* C24: the merge never opens with a joiner, whatever a and b.
C24_NoLeadingJoiner ==
    Merged => ~OpensWithJoiner(log[2].result)

(***************************************************************************)
(* Merging update expressions, under SpecMerge.                            *)
(***************************************************************************)
\* The expressions merged: empty; a bare comma-list; one section; two
\* sections under different keywords, in either order.  Each is written
\* plainly ('SET a, b') or tightly, with a comma after every item and no
\* space ('SET a,b,').
MergeItems(sec) ==
    CASE sec = "SET" -> {VAL_ITEM, FOO_ITEM, USERID_ITEM, PRICE_ITEM}
      [] sec = "ADD" -> {BAR_ITEM}
      [] sec = "DELETE" -> {TAGS_ITEM}
      [] sec = "REMOVE" -> {TMP_ITEM}
      [] OTHER -> {VAL_ITEM, FOO_ITEM, USERID_ITEM, PRICE_ITEM}
MergeSections(sec) == { Section(sec, items) : items \in ItemLists(MergeItems(sec)) }
OneItemSections(sec) == { Section(sec, <<x>>) : x \in MergeItems(sec) }
MergeShapes ==
    { <<>> }
    \cup { <<s>> : s \in MergeSections("") \cup MergeSections("SET") \cup MergeSections("ADD")
                         \cup MergeSections("DELETE") \cup MergeSections("REMOVE") }
    \cup { <<pair[1], pair[2]>> :
              pair \in { q \in (OneItemSections("SET") \cup OneItemSections("ADD")
                                \cup OneItemSections("DELETE") \cup OneItemSections("REMOVE"))
                               \X (OneItemSections("SET") \cup OneItemSections("ADD")
                                   \cup OneItemSections("DELETE") \cup OneItemSections("REMOVE")) :
                           q[1].sec # q[2].sec } }
MergeExpressions == { [secs |-> secs, tight |-> tight] : secs \in MergeShapes, tight \in BOOLEAN }

\* The text of an expression.
RenderTight(sections) ==
    Join([i \in 1..Len(sections) |->
            (IF sections[i].sec = "" THEN <<>> ELSE <<sections[i].sec, " ">>)
            \o Join(sections[i].items, <<",">>) \o <<",">>],
         <<" ">>)
Text(x) == IF x.tight THEN RenderTight(x.secs) ELSE Render(x.secs)

InitMerge ==
    /\ clock = 1
    /\ table = <<>>
    /\ pageMax = 1
    /\ call = [p \in Procs |-> Idle]
    /\ last = NoLast
    /\ ncalls = 0
    /\ fx = NoFetch
    /\ tasks = <<>>
    /\ \E a \in MergeExpressions, b \in MergeExpressions :
          log = <<[e |-> "input", exp1 |-> a, exp2 |-> b]>>

\* concatUpdateExpression(exp1, exp2) is called.
ConcatUpdateCall ==
    /\ Len(log) = 1
    /\ log' = Append(log, [e |-> "merged",
                           result |-> ConcatUpdateExpression(Text(log[1].exp1),
                                                             Text(log[1].exp2))])
    /\ UNCHANGED <<table, clock, pageMax, call, last, ncalls, fx, tasks>>

NextMerge == ConcatUpdateCall

SpecMerge == InitMerge /\ [][NextMerge]_vars

\* The items an expression holds under a keyword, in order ("": those of
\* its bare list).
RECURSIVE ItemsOf(_, _)
ItemsOf(secs, sec) ==
    IF secs = <<>> THEN <<>>
    ELSE (IF Head(secs).sec = sec THEN Head(secs).items ELSE <<>>) \o ItemsOf(Tail(secs), sec)
Bare(x) == \A i \in 1..Len(x.secs) : x.secs[i].sec = ""
Keyworded(x) == \A i \in 1..Len(x.secs) : x.secs[i].sec # ""

\* The items that stand in a text after the keyword at position i, up to
\* the next keyword, in order; those of the first section under sec.
ItemSeqAt(expr, i) ==
    LET later == { j \in SectionStarts(expr) : j > i }
        end == IF later = {} THEN Len(expr)
               ELSE (CHOOSE x \in later : \A y \in later : x <= y) - 1
        pieces == Split(SubSeq(expr, i + 1, end))
    IN  [j \in 1..Len(pieces) |-> Trim(pieces[j], {" "})]
SectionItems(expr, sec) ==
    LET starts == { j \in SectionStarts(expr) : expr[j] = sec }
    IN  IF starts = {} THEN <<>>
        ELSE ItemSeqAt(expr, CHOOSE x \in starts : \A y \in starts : x <= y)
SectionRank(sec) == CHOOSE i \in 1..Len(SECTIONS) : SECTIONS[i] = sec

\* C25: for expressions written with section keywords, every section of the
\* merge holds the items of that section of a, then those of b, each
\* distinct item once in first-seen order, none lost and none cut short.
C25_SectionItemsMerged ==
    (Merged /\ Keyworded(log[1].exp1) /\ Keyworded(log[1].exp2)) =>
        \A sec \in Keywords :
            SectionItems(log[2].result, sec)
                = Uniq(ItemsOf(log[1].exp1.secs, sec) \o ItemsOf(log[1].exp2.secs, sec))

\* C26: a merge that is not empty lists its sections in the order SET, ADD,
\* DELETE, REMOVE, each once, each the keyword, a space and its items (one
\* at least, none empty) joined by ', ', the sections joined by one space;
\* and for expressions written with keywords a section is listed exactly
\* when one of them holds an item under its keyword.
C26_SectionsInOrder ==
    (Merged /\ log[2].result # <<>>) =>
        LET r == log[2].result
            starts == SortedSeq(SectionStarts(r))
        IN  /\ Len(starts) >= 1 /\ starts[1] = 1
            /\ \A i \in 1..(Len(starts) - 1) :
                  SectionRank(r[starts[i]]) < SectionRank(r[starts[i + 1]])
            /\ \A i \in 1..Len(starts) :
                  \A j \in 1..Len(ItemSeqAt(r, starts[i])) : ItemSeqAt(r, starts[i])[j] # <<>>
            /\ r = Join([i \in 1..Len(starts) |->
                            <<r[starts[i]], " ">> \o Join(ItemSeqAt(r, starts[i]), <<",", " ">>)],
                        <<" ">>)
            /\ (Keyworded(log[1].exp1) /\ Keyworded(log[1].exp2)) =>
                  \A sec \in Keywords :
                      (\E i \in 1..Len(starts) : r[starts[i]] = sec)
                        <=> ItemsOf(log[1].exp1.secs, sec) \o ItemsOf(log[1].exp2.secs, sec) # <<>>

\* C27: when neither expression is written with a keyword and one of them
\* at least holds an item, the merge is one SET section that holds the items
\* of a followed by the items of b, with no comma at its end.
C27_BareListsAreSet ==
    (Merged /\ Bare(log[1].exp1) /\ Bare(log[1].exp2)
     /\ log[1].exp1.secs \o log[1].exp2.secs # <<>>) =>
        LET r == log[2].result
        IN  /\ SectionStarts(r) = {1} /\ r[1] = "SET" /\ r[2] = " "
            /\ r[Len(r)] \notin TRIM
            /\ SectionItems(r, "SET")
                  = ItemsOf(log[1].exp1.secs, "") \o ItemsOf(log[1].exp2.secs, "")

\* '#val = :val,' merged with a bare item is 'SET #val = :val, ' and the
\* item.
C27_Witness ==
    /\ Merged
    /\ log[1].exp1 = [secs |-> <<Section("", <<VAL_ITEM>>)>>, tight |-> TRUE]
    /\ log[1].exp2 = [secs |-> <<Section("", <<FOO_ITEM>>)>>, tight |-> FALSE]
    /\ log[2].result = <<"SET", " ">> \o VAL_ITEM \o <<",", " ">> \o FOO_ITEM

(***************************************************************************)
(* Requests that fail, under SpecFail.  No call of the library catches     *)
(* what client.send throws: the rejection of a request is the rejection of *)
(* the call that awaits it.                                                *)
(***************************************************************************)
TRANSPORT_ERROR == "TransportError"

\* A fetch that sends its failed query again.
OnQueryFailureRetry(f, err) == [f EXCEPT !.pc = "query"]

\* fetch when client.send rejects (index.ts:414, 426): the await throws out
\* of fetch, out of its loop when it is in it.
OnQueryFailure(f, err) == [f EXCEPT !.pc = "failed", !.error = err]

\* The executor fails the outstanding query of fetch, whatever its page.
QueryFailure ==
    /\ fx.pc = "query"
    /\ fx' = OnQueryFailure(fx, TRANSPORT_ERROR)
    /\ log' = log \o <<Event("reject", fx.npages + 1, <<>>, NoKey, 0)>>
    /\ UNCHANGED <<table, clock, pageMax, call, last, ncalls, tasks>>

\* What a call leaves in last when a request of its own fails in transport.
Failed(c, req, stored) ==
    [Ended(c, TRANSPORT_ERROR) EXCEPT !.overwrite = c.overwrite, !.before = stored,
                                      !.after = stored, !.current = c.current,
                                      !.now = c.now, !.req = req]

\* The executor fails the read of get, update or delete (index.ts:456, 530,
\* 294): the call rejects before it builds a write request.
ReadFails(p) ==
    /\ call[p].pc = "reading"
    /\ call' = [call EXCEPT ![p] = Idle]
    /\ last' = Failed(call[p], NoReq, Stored(table, call[p].item.sk))
    /\ UNCHANGED <<table, clock, pageMax, ncalls, pageVars>>

\* The executor fails the write of put, update or delete (index.ts:500, 554,
\* 306) without executing it: the call rejects.
WriteFails(p) ==
    /\ call[p].pc = "writing"
    /\ call' = [call EXCEPT ![p] = Idle]
    /\ last' = Failed(call[p], call[p].req, Stored(table, call[p].req.key.sk))
    /\ UNCHANGED <<table, clock, pageMax, ncalls, pageVars>>

\* A partition of up to MaxPages pages of a small store page.
InitFail ==
    /\ clock = 1
    /\ pageMax \in 1..MaxSmallPage
    /\ \E n \in 0..(MaxPages * pageMax) : table = [k \in 1..n |-> Item(k, 1, "w0")]
    /\ call = [p \in Procs |-> Idle]
    /\ last = NoLast
    /\ ncalls = 0
    /\ fx = NoFetch
    /\ tasks = <<>>
    /\ log = <<>>

\* One caller, one call at a time: calls of put, get, update and delete, or
\* calls of fetch; every request may fail.
NextFail ==
    \/ \E k \in Keys, overwrite \in BOOLEAN, cc \in CallerConditions :
            fx.pc = "idle" /\ PutCall("w1", k, overwrite, cc, 0)
    \/ \E k \in Keys : fx.pc = "idle" /\ GetCall("w1", k)
    \/ \E k \in Keys, mode \in {"expression", "updateFn"}, upsert \in BOOLEAN :
            fx.pc = "idle" /\ UpdateCall("w1", k, mode, upsert, <<>>)
    \/ \E k \in Keys, cc \in CallerConditions : fx.pc = "idle" /\ DeleteCall("w1", k, cc)
    \/ \E lekAtEnd \in BOOLEAN : ReadResponse("w1", lekAtEnd)
    \/ WriteResponse("w1")
    \/ ReadFails("w1")
    \/ WriteFails("w1")
    \/ \E item \in FetchItems, all \in BOOLEAN, limit \in Limits, resume \in BOOLEAN :
            ncalls = 0 /\ FetchCall(item, all, limit, resume)
    \/ \E lekAtEnd \in BOOLEAN : QueryResponse(lekAtEnd)
    \/ QueryFailure

SpecFail == InitFail /\ [][NextFail]_vars

(***************************************************************************)
(* Claims on failing requests, under SpecFail.                             *)
(***************************************************************************)
FAILURES == {TRANSPORT_ERROR, "ConditionalCheckFailedException"}

\* C28: when a request of put, get, update or delete fails, in transport or
\* on its condition, the call ends at once with that failure: it has stored
\* nothing and, when the request was its read, it has built no write
\* request.  When a query of fetch fails, whatever its page, fetch ends with
\* that failure and nothing follows: no query, no page, no callback and no
\* result.
C28_FailurePropagates ==
    /\ (last.op \in {"put", "get", "update", "delete"} /\ last.error \in FAILURES) =>
          /\ ~last.ok
          /\ call["w1"] = Idle
          /\ last.after = last.before
          /\ Stored(table, last.before.sk) = last.before
          /\ last.error = "ConditionalCheckFailedException" =>
                last.req.cmd \in {"Put", "Update", "Delete"}
          /\ last.op = "get" => last.req = NoReq
    /\ (fx.op = "fetch" /\ log # <<>>) =>
          LET c == SubSeq(log, CurStart, Len(log))
          IN  /\ \A i \in Kind(c, "reject") :
                    /\ i = Len(c)
                    /\ fx.pc = "failed" /\ fx.error = TRANSPORT_ERROR
                    /\ Cardinality(Kind(c, "query")) = c[i].page
                    /\ Cardinality(Kind(c, "chunk")) = c[i].page - 1
              /\ fx.pc = "failed" => Kind(c, "reject") # {} /\ Kind(c, "resolve") = {}

\* A fetch-all failed on its second query, after the callback of the first
\* page, with items still to come.
C28_Witness ==
    /\ fx.op = "fetch" /\ fx.all /\ fx.pc = "failed" /\ fx.error = TRANSPORT_ERROR
    /\ fx.npages = 1 /\ Len(fx.items) = 1 /\ DOMAIN table = 1..3
    /\ log[Len(log)].e = "reject" /\ log[Len(log)].page = 2

(***************************************************************************)
(* batchDelete with bulk deletes that fail, under SpecDelFail.             *)
(***************************************************************************)
\* What the rejection of the callback of page pg does to fetch: awaited (the
\* first page, index.ts:418), it throws out of fetch and batchDelete rejects
\* with it; not awaited (index.ts:434), it is an unhandled rejection, which
\* ends the process or is reported and leaves fetch running (crash).
OnChunkFailure(f, pg, err, crash) ==
    IF Awaited(pg) /\ f.pc = "await" THEN [f EXCEPT !.pc = "failed", !.error = err]
    ELSE IF crash THEN [f EXCEPT !.pc = "crashed"]
    ELSE f

\* The executor fails the outstanding bulk delete of page pg: del throws out
\* of its loop (index.ts:260-277) and sends no other group.
BulkDeleteFailure(pg, crash) ==
    /\ pg \in 1..Len(tasks)
    /\ tasks[pg].todo # <<>>
    /\ fx.pc \in {"query", "await", "done"}
    /\ fx' = OnChunkFailure(fx, pg, TRANSPORT_ERROR, crash)
    /\ tasks' = IF fx'.pc = "crashed"
                THEN [i \in 1..Len(tasks) |-> [tasks[i] EXCEPT !.todo = <<>>]]
                ELSE [tasks EXCEPT ![pg].todo = <<>>]
    /\ log' = log \o <<Event("bdelFail", pg, Head(tasks[pg].todo), NoKey, tasks[pg].nth)>>
    /\ UNCHANGED <<table, clock, pageMax, call, last, ncalls>>

NextDelFail ==
    \/ \E item \in FetchItems : BatchDeleteCall(item)
    \/ \E lekAtEnd \in BOOLEAN : QueryResponse(lekAtEnd)
    \/ \E pg \in 1..MaxPages + 1 : BulkDeleteResponse(pg)
    \/ \E pg \in 1..MaxPages + 1, crash \in BOOLEAN : BulkDeleteFailure(pg, crash)

SpecDelFail == InitPages /\ [][NextDelFail]_vars

\* C29: once a bulk delete of batchDelete has failed, for a page of any
\* rank, the call has rejected with that failure, and no query follows.
C29_DeleteFailureRejects ==
    fx.op = "batchDelete" =>
        \A i \in Kind(log, "bdelFail") :
            /\ fx.pc = "failed" /\ fx.error = TRANSPORT_ERROR
            /\ \A j \in Kind(log, "query") : j < i

(***************************************************************************)
(* batchWrite with bulk writes that fail, under SpecWriteFail.             *)
(***************************************************************************)
\* A batchWrite that goes on after a failed group.
OnWriteFailureContinue(f, err) == f

\* batchWrite when client.send rejects (index.ts:233-245): the await throws
\* out of the loop and out of the call.
OnWriteFailure(f, err) == [f EXCEPT !.pc = "failed", !.error = err]

\* The executor fails the outstanding bulk write without executing it.
BulkWriteFailure ==
    /\ fx.op = "batchWrite" /\ fx.pc = "write"
    /\ fx' = OnWriteFailure(fx, TRANSPORT_ERROR)
    /\ log' = log \o <<Event("bwriteFail", tasks[1].nth, Head(tasks[1].todo), NoKey,
                             tasks[1].nth)>>
    /\ last' = NoLast
    /\ UNCHANGED <<table, clock, pageMax, call, ncalls, tasks>>

NextWriteFail ==
    \/ \E n \in BatchSizes, c \in {0, CallerTs}, rev \in BOOLEAN : BatchWriteCall(n, c, rev)
    \/ BulkWriteResponse
    \/ BulkWriteFailure
    \/ Tick

SpecWriteFail == Init /\ [][NextWriteFail]_vars

\* C30: batchWrite sends the request of a group only after the request of
\* the group before it has succeeded, one request at a time.  When the
\* request of group k fails the call has rejected with that failure and
\* nothing follows: k requests were sent in all, the items of the groups
\* before k are stored as they were written, those of group k and after are
\* not, and no other request is sent.
C30_GroupsInSequence ==
    fx.op = "batchWrite" =>
        LET sent == Kind(log, "bwrite")
            done == Kind(log, "bwriteDone")
            failed == Kind(log, "bwriteFail")
            groups == WriteChunks(Stamp(log[1].items, log[1].n))
        IN  /\ \A i \in sent :
                  /\ log[i].items = groups[log[i].page]
                  /\ log[i].page > 1 =>
                        \E j \in done : j < i /\ log[j].page = log[i].page - 1
            /\ Cardinality(sent) - Cardinality(done) - Cardinality(failed) \in {0, 1}
            /\ \A i \in failed :
                  LET k == log[i].page
                  IN  /\ i = Len(log)
                      /\ fx.pc = "failed" /\ fx.error = TRANSPORT_ERROR
                      /\ Cardinality(sent) = k /\ Cardinality(done) = k - 1
                      /\ \A g \in 1..Len(groups) : \A x \in 1..Len(groups[g]) :
                            (Stored(table, groups[g][x].sk) = groups[g][x]) <=> g < k
            /\ fx.pc = "failed" => failed # {}

\* Of 52 items the second group failed: the first 25 items are stored, the
\* others are not, and two requests were sent.
C30_Witness ==
    /\ fx.op = "batchWrite" /\ fx.pc = "failed"
    /\ Len(log[1].items) = 52 /\ log[1].items[1].sk = 1
    /\ log[Len(log)].e = "bwriteFail" /\ log[Len(log)].page = 2
    /\ \A k \in 1..25 : Stored(table, k).val = "b"
    /\ \A k \in 26..52 : Stored(table, k) = NoItem
    /\ Len(WriteRequests) = 2

(***************************************************************************)
(* Claims on the caller's condition and on __ts, under Spec.               *)
(***************************************************************************)
\* The built-in guard of the write, alone, evaluated on what was stored
\* when the store evaluated the write.
GuardAlone(l) ==
    CASE l.req.cmd = "Delete" -> EvalCondition(<<TS_EXISTS_AND_EQ>>, l.before, l.req.ts)
      [] l.op = "update" -> EvalCondition(<<TS_ABSENT_OR_EQ>>, l.before, l.req.ts)
      [] OTHER -> EvalCondition(PutGuard(l.overwrite), l.before, l.req.ts)

\* C31: whatever condition the caller adds, also one that opens with OR,
\* the write of a plain put, an update or a delete is rejected whenever the
\* built-in guard alone is false.
C31_CallerConditionStrengthens ==
    (/\ last.op \in {"put", "update", "delete"} /\ last.req # NoReq
     /\ last.op = "put" => ~last.overwrite
     /\ ~GuardAlone(last)) => Rejected(last)

\* C33: every successful overwriting put or update of a stored item leaves
\* it with a __ts strictly greater than the one it held before.
C33_TsStrictlyGrows ==
    (/\ last.ok /\ last.before # NoItem
     /\ (last.op = "put" /\ last.overwrite) \/ last.op = "update") =>
        last.after.ts > last.before.ts

(***************************************************************************)
(* Claims on the key of the write, under SpecKeys.                         *)
(***************************************************************************)
\* C32: the write request of a delete or an update, in either mode, is
\* addressed to the primary key of the item the call's own read returned,
\* also when the caller's item does not hold the primary key pair.
C32_WriteKeyFromRead ==
    \A p \in Procs :
        (call[p].pc = "writing" /\ call[p].op \in {"update", "delete"}
         /\ call[p].current # NoItem) =>
            call[p].req.key = KeyOf(call[p].current)

(***************************************************************************)
(* Claims on a transform that returns nothing, under SpecModes.            *)
(***************************************************************************)
\* C34: a transform-mode update of a stored item whose transform returns
\* null leaves the item's attributes other than __ts as they were read.
C34_NullTransformKeepsItem ==
    (last.op = "update" /\ last.mode = "updateFnNil" /\ last.ok /\ last.current # NoItem) =>
        [last.after EXCEPT !.ts = 0] = [last.current EXCEPT !.ts = 0]

(***************************************************************************)
(* The QueryCommand input of fetch in full (index.ts:333-412), under       *)
(* SpecQuery.  Items are functions from attribute names to values, as for  *)
(* the resolver; an attribute the item does not hold reads as undefined.   *)
(***************************************************************************)
PARTITION_EQ == "#partition = :partition"
SORT_EQ == "#sort = :sort"
SORT_BEGINS == "begins_with(#sort, :sort)"
FOO_FILTER == "#foo = :foo"
UNDEFINED == "undefined"

Attr(item, name) == IF name \in DOMAIN item THEN item[name] ELSE UNDEFINED

\* A sort condition that is always an equality.
SortConditionEq(prefix) == <<" ", "AND", " ", SORT_EQ>>

\* What a found pair appends to the key condition (index.ts:359-363).
SortCondition(prefix) ==
    IF prefix THEN <<" ", "AND", " ", SORT_BEGINS>> ELSE <<" ", "AND", " ", SORT_EQ>>

\* The caller's placeholders are spread over those of the key condition
\* (index.ts:392-404).
Spread(base, over) == over @@ base

\* The QueryCommand input (index.ts:333-412).  Empty text stands for an
\* absent IndexName, FilterExpression or option.
QueryInput(item, opts, schema, indexes) ==
    LET resolved == OptimisticResolveSchema(item, schema, indexes)
        index == resolved.index
        found == index # ""
        keyCondition == IF found
                        THEN <<PARTITION_EQ>> \o SortCondition(opts.prefix)
                        ELSE <<PARTITION_EQ>>
        names == IF found
                 THEN [n \in {"#partition", "#sort"} |->
                          IF n = "#partition" THEN resolved.schema.partition
                          ELSE resolved.schema.sort]
                 ELSE [n \in {"#partition"} |-> schema.partition]
        values == IF found
                  THEN [n \in {":partition", ":sort"} |->
                           IF n = ":partition" THEN Attr(item, resolved.schema.partition)
                           ELSE Attr(item, resolved.schema.sort)]
                  ELSE [n \in {":partition"} |-> Attr(item, schema.partition)]
    IN  [IndexName |-> IndexName(opts.index, index),
         KeyConditionExpression |->
             IF opts.expression # <<>>
             THEN ConcatConditionExpression(keyCondition, opts.expression)
             ELSE keyCondition,
         ExpressionAttributeNames |-> Spread(names, opts.attributeNames),
         ExpressionAttributeValues |-> Spread(values, opts.attributeValues),
         FilterExpression |-> opts.filterExpression]

\* The options a caller passes to fetch.
NoNames == [n \in {} |-> ""]
QueryOptions ==
    [index : {"", LS_INDEX.name, GS_INDEX.name},
     prefix : BOOLEAN,
     expression : { <<>>, <<X_COND>>, <<" ", X_COND>>, <<"OR", " ", X_COND>> },
     filterExpression : { <<>>, <<FOO_FILTER>> },
     attributeNames : { NoNames, [n \in {"#lsiSk"} |-> "lsiSk"] },
     attributeValues : { NoNames }]

InitQuery ==
    /\ clock = 1
    /\ table = <<>>
    /\ pageMax = 1
    /\ call = [p \in Procs |-> Idle]
    /\ last = NoLast
    /\ ncalls = 0
    /\ fx = NoFetch
    /\ tasks = <<>>
    /\ log = <<>>

\* fetch(item, opts) up to the first client.send.
QueryCall(item, opts) ==
    /\ log = <<>>
    /\ log' = <<[e |-> "query", item |-> item, opts |-> opts,
                 input |-> QueryInput(item, opts, SCHEMA, INDEXES)]>>
    /\ UNCHANGED <<table, clock, pageMax, call, last, ncalls, fx, tasks>>

NextQuery ==
    /\ log = <<>>
    /\ \E item \in ResolveItems, opts \in QueryOptions : QueryCall(item, opts)

SpecQuery == InitQuery /\ [][NextQuery]_vars

\* What the resolver finds for the item of the logged call.
Found(q) == OptimisticResolveSchema(q.item, SCHEMA, INDEXES)

\* C35: the key condition fetch sends is the partition equality alone when
\* the resolver finds no pair, the partition equality AND the sort equality
\* when it finds a pair and prefix is off, the partition equality AND
\* begins_with on the sort attribute when it finds a pair and prefix is on;
\* with a caller expression, that text merged with the expression by the
\* condition merge; the filter expression is the caller's, unchanged.
C35_KeyConditionText ==
    \A i \in 1..Len(log) :
        log[i].e = "query" =>
            LET q == log[i]
                base == CASE Found(q).index = "" -> <<PARTITION_EQ>>
                          [] Found(q).index # "" /\ ~q.opts.prefix ->
                                <<PARTITION_EQ, " ", "AND", " ", SORT_EQ>>
                          [] OTHER -> <<PARTITION_EQ, " ", "AND", " ", SORT_BEGINS>>
            IN  /\ q.opts.expression = <<>> => q.input.KeyConditionExpression = base
                /\ q.opts.expression # <<>> =>
                      q.input.KeyConditionExpression
                          = ConcatConditionExpression(base, q.opts.expression)
                /\ q.input.FilterExpression = q.opts.filterExpression

\* A prefix fetch on a pair with a caller expression and a filter.
C35_Witness ==
    /\ Len(log) = 1
    /\ log[1].e = "query"
    /\ log[1].opts.prefix
    /\ log[1].opts.expression = <<" ", X_COND>>
    /\ log[1].opts.filterExpression = <<FOO_FILTER>>
    /\ log[1].input.KeyConditionExpression
          = <<PARTITION_EQ, " ", "AND", " ", SORT_BEGINS, " ", "AND", " ", X_COND>>
    /\ log[1].input.FilterExpression = <<FOO_FILTER>>

\* C36: with an index override the query's IndexName is the override
\* whatever the resolver returns, and #partition, #sort, :partition, :sort
\* are the attributes and values of the resolved pair when one is found;
\* without override IndexName is the resolved index, and absent when the
\* resolver finds the primary pair.
C36_IndexOverride ==
    \A i \in 1..Len(log) :
        log[i].e = "query" =>
            LET q == log[i]
                r == Found(q)
            IN  /\ q.opts.index # "" => q.input.IndexName = q.opts.index
                /\ r.index # "" =>
                      /\ q.input.ExpressionAttributeNames["#partition"] = r.schema.partition
                      /\ q.input.ExpressionAttributeNames["#sort"] = r.schema.sort
                      /\ q.input.ExpressionAttributeValues[":partition"]
                            = Attr(q.item, r.schema.partition)
                      /\ q.input.ExpressionAttributeValues[":sort"]
                            = Attr(q.item, r.schema.sort)
                /\ (q.opts.index = "" /\ r.index \notin {"", "sort"}) =>
                      q.input.IndexName = r.index
                /\ (q.opts.index = "" /\ r.index = "sort") => q.input.IndexName = ""

\* An override naming another index than the one the resolver finds.
C36_Witness ==
    /\ Len(log) = 1
    /\ log[1].e = "query"
    /\ log[1].opts.index = GS_INDEX.name
    /\ Found(log[1]).index = LS_INDEX.name
    /\ log[1].input.IndexName = GS_INDEX.name
    /\ log[1].input.ExpressionAttributeNames["#sort"] = LS_INDEX.sort
    /\ log[1].input.ExpressionAttributeValues[":sort"] = "v"

\* C40: when the resolver maps the item to the primary pair, an index
\* override of the caller is dropped: the query has no IndexName.
C40_OverrideDroppedOnPrimary ==
    \A i \in 1..Len(log) :
        (/\ log[i].e = "query"
         /\ Found(log[i]).index = "sort"
         /\ log[i].opts.index # "") => log[i].input.IndexName = ""

(***************************************************************************)
(* The later requests of fetch-all, under SpecPages.                       *)
(***************************************************************************)
\* The first request of the current call, from the call the log records.
FirstRequest ==
    QueryParams(Cur[1].items[1],
                [FETCH_OPTS EXCEPT !.limit = Cur[1].n, !.startKey = Cur[1].key])

\* The last response of the current call.
LastPage == Cur[CHOOSE i \in Kind(Cur, "page") : \A j \in Kind(Cur, "page") : j <= i]

\* C37: in fetch-all mode a page request after the first carries the key
\* condition, partition value, index name and per-page cap of the first
\* request; only its start cursor differs, and it is the cursor of the
\* response just before it.
C37_LaterRequestsSameButCursor ==
    (fx.pc = "query" /\ fx.npages >= 1) =>
        /\ fx.all
        /\ LastPage.key # NoKey
        /\ fx.params = [FirstRequest EXCEPT !.ExclusiveStartKey = LastPage.key]
        /\ \A i \in Kind(Cur, "query") :
              Cur[i].page > 1 =>
                  /\ Cur[i].n = FirstRequest.Limit
                  /\ Cur[i - 1].e \in {"chunk", "page"}
                  /\ \E j \in Kind(Cur, "page") :
                        Cur[j].page = Cur[i].page - 1 /\ Cur[i].key = Cur[j].key

\* The third request of a fetch-all with a per-page cap that resumes from a
\* start key is outstanding.
C37_Witness ==
    /\ fx.pc = "query" /\ fx.op = "fetch" /\ fx.npages = 2
    /\ FirstRequest.Limit = 1
    /\ FirstRequest.ExclusiveStartKey # NoKey
    /\ fx.params.ExclusiveStartKey # FirstRequest.ExclusiveStartKey
    /\ fx.params.Limit = 1

(***************************************************************************)
(* Termination of fetch, under SpecTerminate: one fetch or batchDelete on  *)
(* a partition nobody else writes to; the store answers every request it   *)
(* is sent.  A call is followed for MaxRequests page requests.             *)
(***************************************************************************)
MaxRequests == MaxPages * MaxSmallPage + 2

InitTerminate == InitPages /\ pageMax <= MaxSmallPage

StoreAnswersQuery ==
    /\ fx.npages < MaxRequests
    /\ \E lekAtEnd \in BOOLEAN : QueryResponse(lekAtEnd)

StoreAnswersDelete == \E pg \in 1..MaxRequests : BulkDeleteResponse(pg)

NextTerminate ==
    \/ \E item \in FetchItems, all \in BOOLEAN, limit \in Limits :
          fx.pc = "idle" /\ FetchCall(item, all, limit, FALSE)
    \/ \E item \in FetchItems : BatchDeleteCall(item)
    \/ StoreAnswersQuery
    \/ QueryRejected
    \/ StoreAnswersDelete

SpecTerminate ==
    /\ InitTerminate
    /\ [][NextTerminate]_vars
    /\ WF_vars(StoreAnswersQuery)
    /\ WF_vars(QueryRejected)
    /\ WF_vars(StoreAnswersDelete)

\* No page request of the call follows a response without cursor.
NoRequestAfterLastPage ==
    log # <<>> =>
        \A i \in Kind(Cur, "page") :
            Cur[i].key = NoKey => \A j \in Kind(Cur, "query") : j < i

\* C38: a fetch whose page request is outstanding returns after finitely
\* many page requests, in fetch-all mode with any per-page cap as without;
\* neither fetch nor batchDelete sends a page request after the response
\* that carries no cursor.
C38_FetchAllTerminates ==
    /\ (fx.pc = "query" /\ ~QueryFails(fx.params))
          ~> (fx.pc = "done" /\ Cur[Len(Cur)].e = "resolve")
    /\ []NoRequestAfterLastPage

\* A fetch-all with per-page cap 1 has returned after at least four
\* responses, the last one without cursor.
C38_Witness ==
    /\ fx.op = "fetch" /\ fx.all /\ fx.pc = "done" /\ fx.params.Limit = 1
    /\ fx.npages >= 4
    /\ fx.lek = NoKey
    /\ Cur[Len(Cur)].e = "resolve"

(***************************************************************************)
(* The objects the methods are handed, under SpecAlias.  The heap maps an  *)
(* address to an object, an object maps a field name to a value; a value   *)
(* is a text, a flag ("true"/"false") or the address of another object.    *)
(* The heap of a program holds the option templates (index.ts:35-111),     *)
(* each with its own {} literals, the instance's schema and indexes        *)
(* (index.ts:218-220), and the caller's item and options.  Objects a call  *)
(* creates live at addresses named after the call.                         *)
(***************************************************************************)
EmptyObject == [f \in {} |-> ""]

TEMPLATES ==
    [PUT_OPTS |-> [attributeNames |-> "PUT_OPTS.attributeNames",
                   attributeValues |-> "PUT_OPTS.attributeValues",
                   conditionExpression |-> <<>>, overwrite |-> "false"],
     UPDATE_OPTS |-> [attributeNames |-> "UPDATE_OPTS.attributeNames",
                      attributeValues |-> "UPDATE_OPTS.attributeValues",
                      conditionExpression |-> <<>>, expression |-> <<>>,
                      updateFn |-> "identity", upsert |-> "false"],
     DELETE_OPTS |-> [attributeNames |-> "DELETE_OPTS.attributeNames",
                      attributeValues |-> "DELETE_OPTS.attributeValues",
                      conditionExpression |-> <<>>],
     GET_OPTS |-> [attributeNames |-> "GET_OPTS.attributeNames",
                   attributeValues |-> "GET_OPTS.attributeValues"],
     FETCH_OPTS |-> [attributeNames |-> "FETCH_OPTS.attributeNames",
                     attributeValues |-> "FETCH_OPTS.attributeValues",
                     all |-> "false", limit |-> "Infinity"],
     BATCH_DELETE_OPTS |-> [attributeNames |-> "BATCH_DELETE_OPTS.attributeNames",
                            attributeValues |-> "BATCH_DELETE_OPTS.attributeValues"]]

TemplateLiterals ==
    { t \o f : t \in DOMAIN TEMPLATES, f \in {".attributeNames", ".attributeValues"} }

\* The options objects a caller passes.
CallerOptions ==
    { EmptyObject,
      [conditionExpression |-> <<CALLER_ATOM>>],
      [overwrite |-> "true"],
      [attributeNames |-> "opts.attributeNames"],
      [expression |-> Render(DEFAULT_EXPRESSION),
       attributeNames |-> "opts.attributeNames",
       attributeValues |-> "opts.attributeValues"] }

Program(opts) ==
    [a \in DOMAIN TEMPLATES \cup TemplateLiterals
           \cup {"schema", "indexes", "item", "opts", "opts.attributeNames",
                 "opts.attributeValues"} |->
        CASE a \in DOMAIN TEMPLATES -> TEMPLATES[a]
          [] a \in TemplateLiterals -> EmptyObject
          [] a = "schema" -> [partition |-> "pk", sort |-> "sk"]
          [] a = "indexes" -> [first |-> LS_INDEX.name, second |-> GS_INDEX.name]
          [] a = "item" -> [pk |-> "pk-0", sk |-> "sk-0"]
          [] a = "opts" -> opts
          [] a = "opts.attributeNames" -> ("#val" :> "val")
          [] OTHER -> (":val" :> "v")]

\* A new object at address a; obj.f = v.
Alloc(h, a, obj) == (a :> obj) @@ h
SetField(h, a, f, v) == [h EXCEPT ![a] = (f :> v) @@ @]

\* _.defaults(opts, X_OPTS): the caller's object is filled in and returned.
DefaultsInPlace(h, new, opts, template) ==
    [heap |-> [h EXCEPT ![opts] = Spread(h[template], h[opts])], ref |-> opts]

\* opts = _.defaults({}, opts, X_OPTS) (index.ts:251, 292, 331, 454, 465,
\* 528): a new object with the caller's fields, then the template's; the
\* objects the fields refer to are shared.
Defaults(h, new, opts, template) ==
    [heap |-> Alloc(h, new, Spread(h[template], h[opts])), ref |-> new]

\* What a call hands to client.send.
Sent(cmd, names, values, condition, expression, limit) ==
    [cmd |-> cmd, names |-> names, values |-> values, condition |-> condition,
     expression |-> expression, limit |-> limit]

\* fetch (index.ts:323-412): its own options object o; the caller's
\* placeholders are spread into those of the query.
FetchSend(h, o, item) ==
    [heap |-> h,
     sent |-> Sent("Query",
                   Spread("#partition" :> h["schema"].partition
                          @@ "#sort" :> h["schema"].sort,
                          h[h[o].attributeNames]),
                   Spread(":partition" :> h[item].pk @@ ":sort" :> h[item].sk,
                          h[h[o].attributeValues]),
                   <<>>, <<>>, h[o].limit)]
FetchWith(d, item) == FetchSend(d.heap, d.ref, item)
HeapFetch(h, item, opts) == FetchWith(Defaults(h, "fetch.opts", opts, "FETCH_OPTS"), item)

\* get (index.ts:453-462): fetch with { ...opts, limit: 1 }.
GetWith(d, item) ==
    HeapFetch(Alloc(d.heap, "get.fetchOpts", Spread(d.heap[d.ref], [limit |-> "1"])),
              item, "get.fetchOpts")
HeapGet(h, item, opts) == GetWith(Defaults(h, "get.opts", opts, "GET_OPTS"), item)

\* batchDelete (index.ts:250-289): fetch with { ...opts, all: true, onChunk }.
BatchDeleteWith(d, item) ==
    HeapFetch(Alloc(d.heap, "batchDelete.fetchOpts",
                    Spread(d.heap[d.ref], [all |-> "true", onChunk |-> "del"])),
              item, "batchDelete.fetchOpts")
HeapBatchDelete(h, item, opts) ==
    BatchDeleteWith(Defaults(h, "batchDelete.opts", opts, "BATCH_DELETE_OPTS"), item)

\* batchWrite (index.ts:224-248): the items are copied with the stamp.
BatchWriteSend(h) ==
    [heap |-> h,
     sent |-> Sent("BatchWrite", h["batchWrite.item"], EmptyObject, <<>>, <<>>, "")]
HeapBatchWrite(h, item) ==
    BatchWriteSend(Alloc(h, "batchWrite.item", Spread(h[item], "__ts" :> "now")))

\* put (index.ts:464-503): attributeNames of its own options object o is
\* rebound to a new object (index.ts:471-474); item is rebound to a stamped
\* copy (index.ts:481).
PutSend(h, o, item, guard) ==
    [heap |-> Alloc(h, "put.item", Spread(h[item], "__ts" :> "now")),
     sent |-> Sent("Put", h[h[o].attributeNames], h[h[o].attributeValues],
                   IF h[o].conditionExpression # <<>>
                   THEN ConcatConditionExpression(guard, h[o].conditionExpression)
                   ELSE guard,
                   <<>>, "")]
PutWith(d, item) ==
    IF d.heap[d.ref].overwrite = "false"
    THEN PutSend(SetField(Alloc(d.heap, "put.attributeNames",
                                Spread(d.heap[d.heap[d.ref].attributeNames],
                                       "#partition" :> d.heap["schema"].partition)),
                          d.ref, "attributeNames", "put.attributeNames"),
                 d.ref, item, PutGuard(FALSE))
    ELSE PutSend(d.heap, d.ref, item, PutGuard(TRUE))
HeapPut(h, item, opts) == PutWith(Defaults(h, "put.opts", opts, "PUT_OPTS"), item)

\* delete (index.ts:291-321): get with its options; the placeholders of the
\* command are new objects.
DeleteSend(h, o) ==
    [heap |-> h,
     sent |-> Sent("Delete",
                   Spread(h[h[o].attributeNames], "#__ts" :> "__ts"),
                   Spread(h[h[o].attributeValues], ":__ts" :> "t0"),
                   IF h[o].conditionExpression # <<>>
                   THEN ConcatConditionExpression(<<TS_EXISTS_AND_EQ>>,
                                                  h[o].conditionExpression)
                   ELSE <<TS_EXISTS_AND_EQ>>,
                   <<>>, "")]
DeleteWith(d, item) == DeleteSend(HeapGet(d.heap, item, d.ref).heap, d.ref)
HeapDelete(h, item, opts) ==
    DeleteWith(Defaults(h, "delete.opts", opts, "DELETE_OPTS"), item)

\* update (index.ts:527-586) of a stored item: get without options (its
\* default is the template); with an expression, the fields expression,
\* attributeNames and attributeValues of its own options object o are
\* rebound (index.ts:542-552); without, the default transform returns the
\* read item, which put is handed with a new options object
\* (index.ts:580-585).
UpdateSend(h, o) ==
    [heap |-> h,
     sent |-> Sent("Update", h[h[o].attributeNames], h[h[o].attributeValues],
                   UpdateCondition(h[o].conditionExpression), h[o].expression, "")]
UpdateExpression(h, o) ==
    UpdateSend(
        SetField(
            SetField(
                SetField(
                    Alloc(Alloc(h, "update.attributeNames",
                                Spread(h[h[o].attributeNames], "#__ts" :> "__ts")),
                          "update.attributeValues",
                          Spread(h[h[o].attributeValues], ":__ts" :> "t0")),
                    o, "expression",
                    ConcatUpdateExpression(h[o].expression, <<"SET", " ">> \o TS_ITEM)),
                o, "attributeNames", "update.attributeNames"),
            o, "attributeValues", "update.attributeValues"),
        o)
UpdateTransform(h, o) ==
    HeapPut(Alloc(Alloc(Alloc(h, "update.putNames",
                              Spread(h[h[o].attributeNames], "#__ts" :> "__ts")),
                        "update.putValues",
                        Spread(h[h[o].attributeValues], ":__ts" :> "t0")),
                  "update.putOpts",
                  [attributeNames |-> "update.putNames",
                   attributeValues |-> "update.putValues",
                   conditionExpression |-> UpdateCondition(h[o].conditionExpression),
                   overwrite |-> "true"]),
            "update.current", "update.putOpts")
UpdateRead(h, o, item) ==
    IF h[o].expression # <<>>
    THEN UpdateExpression(Alloc(h, "update.current", Spread(h[item], "__ts" :> "t0")), o)
    ELSE UpdateTransform(Alloc(h, "update.current", Spread(h[item], "__ts" :> "t0")), o)
UpdateWith(d, item) == UpdateRead(HeapGet(d.heap, item, "GET_OPTS").heap, d.ref, item)
HeapUpdate(h, item, opts) ==
    UpdateWith(Defaults(h, "update.opts", opts, "UPDATE_OPTS"), item)

\* The default value of the opts parameter of a method is its template.
Template(method) ==
    CASE method = "put" -> "PUT_OPTS"
      [] method = "update" -> "UPDATE_OPTS"
      [] method = "delete" -> "DELETE_OPTS"
      [] method = "get" -> "GET_OPTS"
      [] method = "fetch" -> "FETCH_OPTS"
      [] OTHER -> "BATCH_DELETE_OPTS"

METHODS == {"put", "update", "delete", "get", "fetch", "batchDelete", "batchWrite"}

Run(method, h, opts) ==
    CASE method = "put" -> HeapPut(h, "item", opts)
      [] method = "update" -> HeapUpdate(h, "item", opts)
      [] method = "delete" -> HeapDelete(h, "item", opts)
      [] method = "get" -> HeapGet(h, "item", opts)
      [] method = "fetch" -> HeapFetch(h, "item", opts)
      [] method = "batchDelete" -> HeapBatchDelete(h, "item", opts)
      [] OTHER -> HeapBatchWrite(h, "item")

\* The program after a call: its heap, and what the call sent.
AfterCall(l, method, opts, r) ==
    <<[l[1] EXCEPT !.heap = r.heap]>> \o Tail(l)
        \o <<[e |-> method, opts |-> opts, sent |-> r.sent]>>

InitAlias ==
    /\ clock = 1
    /\ table = <<>>
    /\ pageMax = 1
    /\ call = [p \in Procs |-> Idle]
    /\ last = NoLast
    /\ ncalls = 0
    /\ fx = NoFetch
    /\ tasks = <<>>
    /\ \E opts \in CallerOptions :
          log = <<[e |-> "program", initial |-> Program(opts), heap |-> Program(opts)]>>

\* The caller calls a method with its item, and with its options object or
\* none.
Invoke(method, opts) ==
    /\ Len(log) <= MaxCalls
    /\ log' = AfterCall(log, method, opts, Run(method, log[1].heap, opts))
    /\ UNCHANGED <<table, clock, pageMax, call, last, ncalls, fx, tasks>>

NextAlias ==
    \E method \in METHODS : \E opts \in {"opts", Template(method)} : Invoke(method, opts)

SpecAlias == InitAlias /\ [][NextAlias]_vars

\* C39: after any sequence of calls the caller's item and options objects,
\* the option templates and the instance's schema and index list are what
\* they were, and every call has sent what the same call sends in a program
\* that has made no call yet.
C39_NothingShared ==
    /\ \A a \in DOMAIN log[1].initial : log[1].heap[a] = log[1].initial[a]
    /\ \A i \in 2..Len(log) :
          log[i].sent = Run(log[i].e, log[1].initial, log[i].opts).sent

\* A plain put and then an expression update, both with the caller's
\* options object, which holds an expression and placeholders.
C39_Witness ==
    /\ Len(log) = 3
    /\ log[2].e = "put" /\ log[2].opts = "opts"
    /\ log[3].e = "update" /\ log[3].opts = "opts"
    /\ log[2].sent.names = ("#val" :> "val" @@ "#partition" :> "pk")
    /\ log[3].sent.names = ("#val" :> "val" @@ "#__ts" :> "__ts")
    /\ log[3].sent.expression = <<"SET", " ">> \o VAL_ITEM \o <<",", " ">> \o TS_ITEM
    /\ log[1].heap["opts"].expression = Render(DEFAULT_EXPRESSION)

====
